---- MODULE Spec2Model ----
(***************************************************************************)
(* Model of pak: a single-file indexed object store.                       *)
(*   - PakValue ordering                        (src/src/value.rs)         *)
(*   - PakTreeBuilder / PakTreeBuilderAccess    (src/src/btree.rs)         *)
(*   - PakTree read-time traversals             (src/src/btree.rs)         *)
(*   - PakBuilder, Pak (reader), PakSource      (src/src/lib.rs)           *)
(*   - PakQuery, PakQueryUnion/Intersection     (src/src/query.rs)         *)
(***************************************************************************)
EXTENDS Integers, Sequences, FiniteSets, TLC

VARIABLES
    \* PakBuilder (lib.rs 149-156)
    chunks,         \* Vec<PakVaultReference>
    size_in_bytes,  \* u64
    vault,          \* Vec<u8>
    paked,          \* history: the items handed to pak, in call order
    \* Pak (lib.rs 31-35); NoPak until a build has produced the reader
    pak,
    \* the last query handed to Pak::query / the tree, and what came back
    query,
    result,
    \* what Pak::query hands back: the items decoded from result, grouped by type
    grouped,
    \* PakTreeBuilder (btree.rs 162-165) used on its own, as the unit test does
    pages,
    max_size,
    \* PakTreeBuilderAccess (btree.rs 199-203)
    current,
    trail,
    \* history: the (key, pointer) pairs handed to insert, in call order
    inserted,
    \* keys the scripted unit test still has to insert (<<>> when unscripted)
    script,
    scripted,
    \* two PakValues under comparison (value.rs 24-83) and what eq and cmp said
    self,
    other,
    equal,
    ordering

vars == <<chunks, size_in_bytes, vault, paked, pak, query, result, grouped,
          pages, max_size, current, trail, inserted, script, scripted,
          self, other, equal, ordering>>

builderVars == <<chunks, size_in_bytes, vault, paked, pak>>
treeVars == <<pages, max_size, current, trail, inserted, script, scripted>>
valueVars == <<self, other, equal, ordering>>

----------------------------------------------------------------------------
(* Bounds *)

MaxItems == 3        \* items handed to PakBuilder::pak before build
MaxAge == 3          \* Int index values are PakInt(1)..PakInt(MaxAge)
MaxInserts == 6      \* inserts on a stand-alone PakTreeBuilder
MaxKey == 3          \* stand-alone tree keys are PakInt(1)..PakInt(MaxKey)
IntBits == 4         \* i64 and u64 are modelled with IntBits bits in place of 64

(* Option<usize>::None for page links *)
None == 0 - 1

Min(S) == CHOOSE x \in S : \A y \in S : x <= y

RECURSIVE Pow2(_)
Pow2(n) == IF n = 0 THEN 1 ELSE 2 * Pow2(n - 1)

----------------------------------------------------------------------------
(* PakValue (value.rs 13-22).  Float is left out of the value domain.      *)
(* A String payload is modelled by its rank in byte-lexicographic order.   *)

PakInt(n) == [tag |-> "Int", v |-> n]
PakUint(n) == [tag |-> "Uint", v |-> n]
PakString(n) == [tag |-> "String", v |-> n]
PakBoolean(b) == [tag |-> "Boolean", v |-> IF b THEN 1 ELSE 0]
Void == [tag |-> "Void", v |-> 0]

(* a cast that keeps the unsigned reading of the bits *)
as_i64_unsigned(x) == x

(* `x as i64` for a u64 x: the same bits read as two's complement *)
as_i64(x) == IF x >= Pow2(IntBits - 1) THEN x - Pow2(IntBits) ELSE x

OrdOf(a, b) == IF a < b THEN "Less" ELSE IF a > b THEN "Greater" ELSE "Equal"

(* PartialOrd::partial_cmp, "None" when the tags are not comparable *)
partial_cmp(a, b) ==
    CASE a.tag = "String" /\ b.tag = "String" -> OrdOf(a.v, b.v)
      [] a.tag = "Int" /\ b.tag = "Int" -> OrdOf(a.v, b.v)
      [] a.tag = "Int" /\ b.tag = "Uint" -> OrdOf(a.v, as_i64(b.v))
      [] a.tag = "Uint" /\ b.tag = "Int" -> OrdOf(as_i64(a.v), b.v)
      [] a.tag = "Uint" /\ b.tag = "Uint" -> OrdOf(a.v, b.v)
      [] a.tag = "Boolean" /\ b.tag = "Boolean" -> OrdOf(a.v, b.v)
      [] a.tag = "Void" /\ b.tag = "Void" -> "Equal"
      [] OTHER -> "None"

(* Ord::cmp: partial_cmp(..).unwrap_or(Equal) *)
cmp(a, b) == IF partial_cmp(a, b) = "None" THEN "Equal" ELSE partial_cmp(a, b)

(* the operators < and > that PartialOrd derives from partial_cmp *)
lt(a, b) == partial_cmp(a, b) = "Less"
gt(a, b) == partial_cmp(a, b) = "Greater"

(* PartialEq::eq *)
eq(a, b) ==
    CASE a.tag = "String" /\ b.tag = "String" -> a.v = b.v
      [] a.tag = "Int" /\ b.tag = "Int" -> a.v = b.v
      [] a.tag = "Int" /\ b.tag = "Uint" -> a.v = as_i64(b.v)
      [] a.tag = "Uint" /\ b.tag = "Int" -> as_i64(a.v) = b.v
      [] a.tag = "Uint" /\ b.tag = "Uint" -> a.v = b.v
      [] a.tag = "Boolean" /\ b.tag = "Boolean" -> a.v = b.v
      [] a.tag = "Void" /\ b.tag = "Void" -> TRUE
      [] OTHER -> FALSE

(* no comparison asked for *)
NoValue == [tag |-> "None", v |-> 0]
ValueIdle ==
    /\ self = NoValue
    /\ other = NoValue
    /\ equal = FALSE
    /\ ordering = "None"

----------------------------------------------------------------------------
(* PakPointer (pointer.rs).  An untyped pointer carries type_name "Untyped" *)

new_typed(T, offset, size) == [offset |-> offset, size |-> size, type_name |-> T]
new_untyped(offset, size) == [offset |-> offset, size |-> size, type_name |-> "Untyped"]
as_untyped(p) == new_untyped(p.offset, p.size)
type_is_match(p, T) == IF p.type_name = "Untyped" THEN TRUE ELSE p.type_name = T
type_name(p) == p.type_name

----------------------------------------------------------------------------
(* PakTreePage / PakTreePageEntry / PakTreeBuilderAccess (btree.rs)         *)

PakTreePage_new == [values |-> <<>>, next |-> None]
new_with_entries(entries) == [values |-> entries, next |-> None]
PakTreePageEntry_new(key, value) == [key |-> key, values |-> <<value>>, previous |-> None]

(* an insert one position too far *)
InsertAt_after(s, i, e) == SubSeq(s, 1, i) \o <<e>> \o SubSeq(s, i + 1, Len(s))

InsertAt(s, i, e) == SubSeq(s, 1, i - 1) \o <<e>> \o SubSeq(s, i, Len(s))

(* 1-based position of the first entry whose key does not compare Less     *)
(* than key, 0 when the scan falls off the end                              *)
FirstNotLess(values, key) ==
    LET S == {i \in 1..Len(values) : cmp(values[i].key, key) # "Less"}
    IN IF S = {} THEN 0 ELSE Min(S)

(* PakTreePage::push: status Ok(index) with the updated page, or Next(index) *)
push(page, e) ==
    LET i == FirstNotLess(page.values, e.key) IN
    IF i = 0 THEN
        IF page.next # None
        THEN [status |-> "Next", index |-> page.next, page |-> page]
        ELSE [status |-> "Ok", index |-> Len(page.values),
              page |-> [page EXCEPT !.values = Append(@, e)]]
    ELSE IF cmp(page.values[i].key, e.key) = "Greater" THEN
        IF page.values[i].previous # None
        THEN [status |-> "Next", index |-> page.values[i].previous, page |-> page]
        ELSE [status |-> "Ok", index |-> i - 1,
              page |-> [page EXCEPT !.values = InsertAt(@, i, e)]]
    ELSE [status |-> "Ok", index |-> i - 1,
          page |-> [page EXCEPT !.values[i].values = @ \o e.values]]

(* A cursor state: t = [pages, max_size, current, trail] *)
goto(t, page) == [t EXCEPT !.trail = <<t.current>> \o @, !.current = page]

back(t) ==
    IF t.trail = <<>> THEN t
    ELSE [t EXCEPT !.current = Head(t.trail), !.trail = Tail(t.trail)]

current_page(t) == t.pages[t.current + 1]

new_page(t, values) == [t EXCEPT !.pages = Append(@, new_with_entries(values))]

RECURSIVE push_loop(_, _)
(* insert_entry lines 238-242: push, and follow Next until a page takes it *)
push_loop(t, entry) ==
    LET r == push(current_page(t), entry) IN
    IF r.status = "Next" THEN push_loop(goto(t, r.index), entry)
    ELSE [t EXCEPT !.pages[t.current + 1] = r.page]

RECURSIVE insert_entry(_, _)
RECURSIVE split(_)

(* insert_entry without the length test that calls split *)
insert_entry_no_split(t, entry) == push_loop(t, entry)

insert_entry(t, entry) ==
    LET t1 == push_loop(t, entry) IN
    IF Len(current_page(t1).values) > t1.max_size THEN split(t1) ELSE t1

(* a split whose new page goes to the front of the page vector *)
split_detach_front(t) ==
    LET half_max == t.max_size \div 2
        values == current_page(t).values
        n == Len(values)
        leading_entries == SubSeq(values, 1, half_max)
        trailing_entries == SubSeq(values, n - half_max + 1, n)
        middle_entry == values[half_max + 1]
        t1 == [t EXCEPT !.pages[t.current + 1].values = trailing_entries]
        t2 == [t1 EXCEPT !.pages = <<new_with_entries(leading_entries)>> \o @]
    IN [t |-> back(t2), middle_entry |-> [middle_entry EXCEPT !.previous = 0]]

(* a split whose median goes back up without the link to the new page *)
split_detach_unlinked(t) ==
    LET half_max == t.max_size \div 2
        values == current_page(t).values
        n == Len(values)
        leading_entries == SubSeq(values, 1, half_max)
        trailing_entries == SubSeq(values, n - half_max + 1, n)
        middle_entry == values[half_max + 1]
        t1 == [t EXCEPT !.pages[t.current + 1].values = trailing_entries]
        t2 == new_page(t1, leading_entries)
    IN [t |-> back(t2), middle_entry |-> middle_entry]

(* split lines 262-278: the page keeps the trailing entries, a new page at  *)
(* the end takes the leading ones, the middle entry points at the new page  *)
(* and the cursor goes back one step on its trail                           *)
split_detach(t) ==
    LET half_max == t.max_size \div 2
        values == current_page(t).values
        n == Len(values)
        leading_entries == SubSeq(values, 1, half_max)
        trailing_entries == SubSeq(values, n - half_max + 1, n)
        middle_entry == values[half_max + 1]
        leading_index == Len(t.pages)
        t1 == [t EXCEPT !.pages[t.current + 1].values = trailing_entries]
        t2 == new_page(t1, leading_entries)
    IN [t |-> back(t2), middle_entry |-> [middle_entry EXCEPT !.previous = leading_index]]

(* split: the steps above, then line 280, self.insert_entry(middle_entry) *)
split(t) == insert_entry(split_detach(t).t, split_detach(t).middle_entry)

(* PakTreeBuilderAccess::insert *)
insert(t, key, value) == insert_entry(t, PakTreePageEntry_new(key, value))

(* PakTreeBuilder::new and PakTreeBuilder::access *)
PakTreeBuilder_new(power_of_two) ==
    [pages |-> <<PakTreePage_new>>, max_size |-> Pow2(power_of_two)]

access(tree) ==
    [pages |-> tree.pages, max_size |-> tree.max_size, current |-> 0, trail |-> <<>>]


----------------------------------------------------------------------------
(* PakTree: the read-time traversals (btree.rs 30-143).                     *)
(* pg maps a page index to the outcome of reading that page:                *)
(* meta.pages.get(&index).unwrap() followed by pak.read_err(pointer).       *)
(* A traversal yields Ok(set), Err (a read failed and ? returned it) or     *)
(* Panic (an unwrap on None).                                               *)

OkSet(S) == [kind |-> "Ok", set |-> S]
Err == [kind |-> "Err", set |-> {}]
Panic == [kind |-> "Panic", set |-> {}]
NoResult == [kind |-> "None", set |-> {}]
NoGroups == [kind |-> "None", groups |-> <<>>]

Range(s) == {s[i] : i \in 1..Len(s)}

(* first, then second: the first failure is the one that is returned *)
Then(first, second) ==
    IF first.kind # "Ok" THEN first
    ELSE IF second.kind # "Ok" THEN second
    ELSE OkSet(first.set \cup second.set)

RECURSIVE get_r(_, _, _)
RECURSIVE get_r_from(_, _, _, _)

(* get_r_from with the descent through entry.previous left out: an entry   *)
(* greater than value is skipped like a smaller one                         *)
RECURSIVE get_r_from_no_descent(_, _, _, _)
get_r_from_no_descent(pg, value, index, i) ==
    LET page == pg[index].obj IN
    IF i > Len(page.values) THEN
        IF page.next # None THEN get_r(pg, value, page.next) ELSE OkSet({})
    ELSE LET entry == page.values[i] IN
        IF lt(entry.key, value) \/ gt(entry.key, value)
        THEN get_r_from_no_descent(pg, value, index, i + 1)
        ELSE OkSet(Range(entry.values))

(* the for loop of get_r from entry i on, then the page.next tail *)
get_r_from(pg, value, index, i) ==
    LET page == pg[index].obj IN
    IF i > Len(page.values) THEN
        IF page.next # None THEN get_r(pg, value, page.next) ELSE OkSet({})
    ELSE LET entry == page.values[i] IN
        IF lt(entry.key, value) THEN get_r_from(pg, value, index, i + 1)
        ELSE IF gt(entry.key, value) THEN
            IF entry.previous # None THEN get_r(pg, value, entry.previous)
            ELSE get_r_from(pg, value, index, i + 1)
        ELSE OkSet(Range(entry.values))

get_r(pg, value, index) ==
    IF index \notin DOMAIN pg THEN Panic
    ELSE IF ~pg[index].ok THEN Err
    ELSE get_r_from(pg, value, index, 1)

RECURSIVE get_less_r(_, _, _, _)
RECURSIVE get_less_r_from(_, _, _, _, _)

get_less_r_from(pg, value, index, match_eq, i) ==
    LET page == pg[index].obj IN
    IF i > Len(page.values) THEN
        IF page.next # None THEN get_less_r(pg, value, page.next, match_eq) ELSE OkSet({})
    ELSE LET entry == page.values[i]
             rest == get_less_r_from(pg, value, index, match_eq, i + 1) IN
        IF gt(entry.key, value) THEN rest
        ELSE IF lt(entry.key, value) THEN
            IF entry.previous # None
            THEN Then(Then(OkSet(Range(entry.values)),
                           get_less_r(pg, value, entry.previous, match_eq)), rest)
            ELSE Then(OkSet(Range(entry.values)), rest)
        ELSE IF match_eq THEN Then(OkSet(Range(entry.values)), rest) ELSE rest

get_less_r(pg, value, index, match_eq) ==
    IF index \notin DOMAIN pg THEN Panic
    ELSE IF ~pg[index].ok THEN Err
    ELSE get_less_r_from(pg, value, index, match_eq, 1)

RECURSIVE get_greater_r(_, _, _, _)
RECURSIVE get_greater_r_from(_, _, _, _, _)

get_greater_r_from(pg, value, index, match_eq, i) ==
    LET page == pg[index].obj IN
    IF i > Len(page.values) THEN
        IF page.next # None THEN get_greater_r(pg, value, page.next, match_eq) ELSE OkSet({})
    ELSE LET entry == page.values[i]
             rest == get_greater_r_from(pg, value, index, match_eq, i + 1) IN
        IF lt(entry.key, value) THEN rest
        ELSE IF gt(entry.key, value) THEN
            IF entry.previous # None
            THEN Then(Then(OkSet(Range(entry.values)),
                           get_less_r(pg, value, entry.previous, match_eq)), rest)
            ELSE Then(OkSet(Range(entry.values)), rest)
        ELSE IF match_eq THEN Then(OkSet(Range(entry.values)), rest) ELSE rest

get_greater_r(pg, value, index, match_eq) ==
    IF index \notin DOMAIN pg THEN Panic
    ELSE IF ~pg[index].ok THEN Err
    ELSE get_greater_r_from(pg, value, index, match_eq, 1)

(* the public entry points: meta.pages.get(&0).unwrap(), then the descent *)
get(pg, value) == get_r(pg, value, 0)
(* a get_less that lets the equal key through *)
get_less_match_eq(pg, value) == get_less_r(pg, value, 0, TRUE)

get_less(pg, value) == get_less_r(pg, value, 0, FALSE)
get_less_eq(pg, value) == get_less_r(pg, value, 0, TRUE)
get_greater(pg, value) == get_greater_r(pg, value, 0, FALSE)
(* called by PakQuery::GreaterThanEqual; its body is not in the sources *)
get_greater_eq(pg, value) == get_greater_r(pg, value, 0, TRUE)

LeafOps == {"Equal", "LessThan", "LessThanEqual", "GreaterThan", "GreaterThanEqual"}

(* the match of PakQuery::execute on the leaf kind *)
TreeLookup(pg, op, value) ==
    CASE op = "Equal" -> get(pg, value)
      [] op = "LessThan" -> get_less(pg, value)
      [] op = "LessThanEqual" -> get_less_eq(pg, value)
      [] op = "GreaterThan" -> get_greater(pg, value)
      [] op = "GreaterThanEqual" -> get_greater_eq(pg, value)

----------------------------------------------------------------------------
(* The stand-alone tree: PakTreeBuilder::new(k), one access cursor, inserts *)
(* chained on it (tests::insert_into_pak_tree) or restarted by access().    *)

NoQuery == [op |-> "None"]
NoPak == [built |-> FALSE]

(* tests::insert_into_pak_tree: PakTreeBuilder::new(2) and its ten keys *)
TestPower == 2
TestKeys == <<10, 20, 30, 40, 25, 5, 15, 35, 45, 46>>

(* the powers of the unscripted stand-alone tree are 0..TreePower *)
TreePower == 1

Cursor == [pages |-> pages, max_size |-> max_size, current |-> current, trail |-> trail]

(* pages as the reader sees them once persisted: index -> decoded page *)
BuilderPages == [i \in 0..(Len(pages) - 1) |-> [ok |-> TRUE, obj |-> pages[i + 1]]]

TreeArgs ==
    IF scripted THEN {PakInt(TestKeys[i]) : i \in 1..Len(TestKeys)}
    ELSE {PakInt(n) : n \in 0..(MaxKey + 1)}

BuilderIdle ==
    /\ chunks = <<>>
    /\ size_in_bytes = 0
    /\ vault = <<>>
    /\ paked = <<>>
    /\ pak = NoPak

TreeInit ==
    /\ BuilderIdle
    /\ query = NoQuery
    /\ result = NoResult
    /\ grouped = NoGroups
    /\ ValueIdle
    /\ scripted \in BOOLEAN
    /\ script = IF scripted THEN TestKeys ELSE <<>>
    /\ \E k \in IF scripted THEN {TestPower} ELSE 0..TreePower :
          /\ max_size = PakTreeBuilder_new(k).max_size
          /\ pages = PakTreeBuilder_new(k).pages
    /\ current = 0
    /\ trail = <<>>
    /\ inserted = <<>>

(* access().insert(key, pointer) continued on the cursor at hand *)
TreeInsert(key) ==
    /\ IF scripted THEN script # <<>> /\ key = Head(script)
       ELSE Len(inserted) < MaxInserts /\ key \in 1..MaxKey
    /\ LET value == new_typed("T", Len(inserted), 1)
           t == insert(Cursor, PakInt(key), value)
       IN /\ pages' = t.pages
          /\ current' = t.current
          /\ trail' = t.trail
          /\ inserted' = Append(inserted, [key |-> PakInt(key), value |-> value])
    /\ script' = IF scripted THEN Tail(script) ELSE script
    /\ query' = NoQuery
    /\ result' = NoResult
    /\ UNCHANGED <<max_size, scripted, builderVars, grouped, valueVars>>

(* PakTreeBuilder::access: a fresh cursor at page 0 with an empty trail *)
TreeAccess ==
    /\ ~scripted
    /\ current' = access([pages |-> pages, max_size |-> max_size]).current
    /\ trail' = access([pages |-> pages, max_size |-> max_size]).trail
    /\ query' = NoQuery
    /\ result' = NoResult
    /\ UNCHANGED <<pages, max_size, inserted, script, scripted, builderVars, grouped, valueVars>>

(* a read of the tree as persisted: get / get_less / get_greater ... from page 0 *)
TreeRead(op, value) ==
    /\ query = NoQuery
    /\ query' = [op |-> op, key |-> "tree", value |-> value]
    /\ result' = TreeLookup(BuilderPages, op, value)
    /\ UNCHANGED <<treeVars, builderVars, grouped, valueVars>>

(* the caller lets go of the result of the last read *)
Drop ==
    /\ query # NoQuery
    /\ query' = NoQuery
    /\ result' = NoResult
    /\ grouped' = NoGroups
    /\ UNCHANGED <<builderVars, treeVars, valueVars>>

(* the reads are those of the unit-test scenario; the trees that            *)
(* build_internal fills are read under SpecRoot                             *)
TreeNext ==
    \/ \E key \in (1..MaxKey) \cup Range(TestKeys) : TreeInsert(key)
    \/ TreeAccess
    \/ \E op \in LeafOps, value \in TreeArgs : scripted /\ TreeRead(op, value)
    \/ Drop

SpecTree == TreeInit /\ [][TreeNext]_vars

----------------------------------------------------------------------------
(* The codec (bincode behind PakItemSerialize / PakItemDeserialize,         *)
(* item.rs 30-41).  A byte is a token [i, n, obj]: the i-th of the n bytes  *)
(* of one encoded object; the first byte carries what the object decodes to *)

Filler == [type |-> "", data |-> <<>>]

Encode(T, data, n) ==
    [i \in 1..n |-> [i |-> i, n |-> n,
                     obj |-> IF i = 1 THEN [type |-> T, data |-> data] ELSE Filler]]

ReadOk(data) == [ok |-> TRUE, obj |-> data]
ReadErr == [ok |-> FALSE, obj |-> <<>>]

(* from_bytes::<T>: succeeds on exactly the bytes of one encoded T *)
from_bytes(T, bytes) ==
    IF /\ Len(bytes) >= 1
       /\ \A j \in 1..Len(bytes) : bytes[j].i = j /\ bytes[j].n = Len(bytes)
       /\ bytes[1].obj.type = T
    THEN ReadOk(bytes[1].obj.data)
    ELSE ReadErr

(* bincode sizes that the layout fixes *)
SizingSize == 24                    \* three u64
LenPrefix == 8                      \* u64 length in front of a Vec / String / map
PointerSize == 16                   \* PakUntypedPointer: two u64
VersionLen == 3                     \* "1.0"

(* index keys used by the items, with the byte length of the key string *)
IndexKeys == {"age", "first_name"}
KeyLen(key) == CASE key = "age" -> 3 [] key = "first_name" -> 10

RECURSIVE SumOver(_, _)
SumOver(S, f) ==
    IF S = {} THEN 0
    ELSE LET x == CHOOSE y \in S : TRUE IN f[x] + SumOver(S \ {x}, f)

(* bincode::serialized_size of PakMeta {name, version, description, author} *)
MetaSize(meta) == 4 * LenPrefix + meta.name + VersionLen + meta.description + meta.author

(* bincode::serialized_size of HashMap<String, PakUntypedPointer> *)
IndicesSize(pointer_map) ==
    LenPrefix + SumOver(DOMAIN pointer_map,
                        [k \in DOMAIN pointer_map |-> LenPrefix + KeyLen(k) + PointerSize])

(* into_bytes().len() of an item, a tree page and a tree meta *)
EncodedLen(T, data) ==
    CASE T = "Person" -> 2
      [] T = "Pet" -> 1
      [] T = "PakTreePage" -> 1 + Len(data.values)
      [] T = "PakTreeMeta" -> 1 + Cardinality(DOMAIN data.pages)

----------------------------------------------------------------------------
(* Items, after test.rs 8-60 with fewer index keys: a Person is indexed      *)
(* under first_name and age, a Pet under age alone.  A Person's age may be  *)
(* Void (an Option that is None, value.rs 195-202); a Pet's age is 2.       *)

Ages == {PakInt(n) : n \in 1..MaxAge} \cup {Void}
Items ==
    [type : {"Person"}, name : {PakString(1)}, age : Ages]
        \cup [type : {"Pet"}, name : {PakString(2)}, age : {PakInt(2)}]

get_indices(item) ==
    IF item.type = "Person"
    THEN <<[key |-> "first_name", value |-> item.name], [key |-> "age", value |-> item.age]>>
    ELSE <<[key |-> "age", value |-> item.age]>>

----------------------------------------------------------------------------
(* PakBuilder (lib.rs 149-304).  b = [chunks, size_in_bytes, vault]         *)

Builder == [chunks |-> chunks, size_in_bytes |-> size_in_bytes, vault |-> vault]

(* PakItemSerialize::into_bytes (item.rs 37-41): bincode::serialize, which  *)
(* fails for a value whose Serialize implementation reports an error       *)
into_bytes(T, data) ==
    IF T = "Unencodable" THEN [ok |-> FALSE, bytes |-> <<>>]
    ELSE [ok |-> TRUE, bytes |-> Encode(T, data, EncodedLen(T, data))]

NoPointer == new_untyped(0, 0)

(* pak_no_search that records the chunk ahead of `into_bytes()?` *)
pak_no_search_record_first(b, T, data) ==
    LET bytes == into_bytes(T, data)
        pointer == new_typed(T, b.size_in_bytes, Len(bytes.bytes))
    IN [b |-> [chunks |-> Append(b.chunks, [pointer |-> pointer, indices |-> <<>>]),
               size_in_bytes |-> b.size_in_bytes + Len(bytes.bytes),
               vault |-> b.vault \o bytes.bytes],
        pointer |-> pointer, ok |-> bytes.ok]

(* pak_no_search: the builder afterwards, the pointer returned, and whether *)
(* the call returned Ok                                                     *)
pak_no_search(b, T, data) ==
    LET bytes == into_bytes(T, data)
        pointer == new_typed(T, b.size_in_bytes, Len(bytes.bytes))
    IN IF ~bytes.ok THEN [b |-> b, pointer |-> NoPointer, ok |-> FALSE]
       ELSE [b |-> [chunks |-> Append(b.chunks, [pointer |-> pointer, indices |-> <<>>]),
                    size_in_bytes |-> b.size_in_bytes + Len(bytes.bytes),
                    vault |-> b.vault \o bytes.bytes],
             pointer |-> pointer, ok |-> TRUE]

(* pak with the pointer taken after size_in_bytes was advanced *)
pak_item_offset_after(b, item) ==
    LET indices == get_indices(item)
        bytes == into_bytes(item.type, item)
        pointer == new_typed(item.type, b.size_in_bytes + Len(bytes.bytes), Len(bytes.bytes))
    IN IF ~bytes.ok THEN [b |-> b, pointer |-> NoPointer, ok |-> FALSE]
       ELSE [b |-> [chunks |-> Append(b.chunks, [pointer |-> pointer, indices |-> indices]),
                    size_in_bytes |-> b.size_in_bytes + Len(bytes.bytes),
                    vault |-> b.vault \o bytes.bytes],
             pointer |-> pointer, ok |-> TRUE]

(* pak: as pak_no_search, with the item's indices recorded *)
pak_item(b, item) ==
    LET indices == get_indices(item)
        bytes == into_bytes(item.type, item)
        pointer == new_typed(item.type, b.size_in_bytes, Len(bytes.bytes))
    IN IF ~bytes.ok THEN [b |-> b, pointer |-> NoPointer, ok |-> FALSE]
       ELSE [b |-> [chunks |-> Append(b.chunks, [pointer |-> pointer, indices |-> indices]),
                    size_in_bytes |-> b.size_in_bytes + Len(bytes.bytes),
                    vault |-> b.vault \o bytes.bytes],
             pointer |-> pointer, ok |-> TRUE]

(* the power build_internal hands to PakTreeBuilder::new (6 in the source), *)
(* scaled down so that index trees split within the bounds                  *)
BuildPower == 1

EmptyMap == [k \in {} |-> 0]
MapPut(m, k, v) == [x \in DOMAIN m \cup {k} |-> IF x = k THEN v ELSE m[x]]

(* the (key, value, pointer) associations in the order build_internal visits them *)
RECURSIVE Associations(_)
Associations(cs) ==
    IF cs = <<>> THEN <<>>
    ELSE [i \in 1..Len(Head(cs).indices) |->
            [key |-> Head(cs).indices[i].key, value |-> Head(cs).indices[i].value,
             pointer |-> Head(cs).pointer]] \o Associations(Tail(cs))

(* lib.rs 261-270: one PakTreeBuilder per key, each insert on a fresh access() *)
RECURSIVE build_trees(_, _)
build_trees(map, assocs) ==
    IF assocs = <<>> THEN map
    ELSE LET a == Head(assocs)
             tree == IF a.key \in DOMAIN map THEN map[a.key] ELSE PakTreeBuilder_new(BuildPower)
             t == insert(access(tree), a.value, a.pointer)
         IN build_trees(MapPut(map, a.key, [pages |-> t.pages, max_size |-> t.max_size]),
                        Tail(assocs))

(* a persistence that numbers the pages from 1 *)
RECURSIVE persist_pages_from_one(_, _, _, _)
persist_pages_from_one(tree, b, page_map, index) ==
    IF index >= Len(tree.pages) THEN [b |-> b, page_map |-> page_map]
    ELSE LET r == pak_no_search(b, "PakTreePage", tree.pages[index + 1])
         IN persist_pages_from_one(tree, r.b, MapPut(page_map, index + 1, r.pointer), index + 1)

(* into_pak lines 185-189: persist pages index, index+1, ... *)
RECURSIVE persist_pages(_, _, _, _)
persist_pages(tree, b, page_map, index) ==
    IF index >= Len(tree.pages) THEN [b |-> b, page_map |-> page_map]
    ELSE LET r == pak_no_search(b, "PakTreePage", tree.pages[index + 1])
         IN persist_pages(tree, r.b, MapPut(page_map, index, r.pointer), index + 1)

into_pak(tree, b) ==
    LET r == persist_pages(tree, b, EmptyMap, 0)
    IN pak_no_search(r.b, "PakTreeMeta", [pages |-> r.page_map])

(* lib.rs 272-276: the trees persisted in the order the HashMap yields them *)
RECURSIVE persist_trees(_, _, _, _)
persist_trees(map, order, b, pointer_map) ==
    IF order = <<>> THEN [b |-> b, pointer_map |-> pointer_map]
    ELSE LET r == into_pak(map[Head(order)], b)
         IN persist_trees(map, Tail(order), r.b,
                          MapPut(pointer_map, Head(order), as_untyped(r.pointer)))

Orders(S) ==
    {o \in [1..Cardinality(S) -> S] : \A i, j \in 1..Cardinality(S) : o[i] = o[j] => i = j}

(* build_output with vault_size counting the payload bytes only *)
build_output_payload_only(r) ==
    LET meta == [name |-> 0, description |-> 0, author |-> 0]
        sizing == [meta_size |-> MetaSize(meta),
                   indices_size |-> IndicesSize(r.pointer_map),
                   vault_size |-> Len(r.b.vault)]
        sizing_out == Encode("PakSizing", sizing, SizingSize)
        meta_out == Encode("PakMeta", meta, sizing.meta_size)
        pointer_map_out == Encode("Indices", r.pointer_map, sizing.indices_size)
        vault_out == Encode("Len", Len(r.b.vault), LenPrefix) \o r.b.vault
    IN [out |-> sizing_out \o meta_out \o pointer_map_out \o vault_out,
        sizing |-> sizing, meta |-> meta, b |-> r.b]

(* build_internal lines 278-301: meta, sizing and the four blobs, given the *)
(* builder and the pointer_map that persisting the trees left in r          *)
build_output(r) ==
    LET meta == [name |-> 0, description |-> 0, author |-> 0]   \* String::new(), by length
        sizing == [meta_size |-> MetaSize(meta),
                   indices_size |-> IndicesSize(r.pointer_map),
                   vault_size |-> LenPrefix + Len(r.b.vault)]
        sizing_out == Encode("PakSizing", sizing, SizingSize)
        meta_out == Encode("PakMeta", meta, sizing.meta_size)
        pointer_map_out == Encode("Indices", r.pointer_map, sizing.indices_size)
        vault_out == Encode("Len", Len(r.b.vault), LenPrefix) \o r.b.vault
    IN [out |-> sizing_out \o meta_out \o pointer_map_out \o vault_out,
        sizing |-> sizing, meta |-> meta, b |-> r.b]

(* build_internal for one HashMap iteration order: (out, sizing, meta) *)
build_internal(b, order) ==
    build_output(persist_trees(build_trees(EmptyMap, Associations(b.chunks)),
                               order, b, EmptyMap))

BuildKeys(b) == {Associations(b.chunks)[i].key : i \in 1..Len(Associations(b.chunks))}

----------------------------------------------------------------------------
(* Pak, the reader (lib.rs 31-123), and PakSource (lib.rs 135-142)          *)

get_vault_start(p) == SizingSize + p.sizing.meta_size + p.sizing.indices_size + LenPrefix
get_indices_start(p) == SizingSize + p.sizing.meta_size

(* A Source (Cursor<Vec<u8>>, BufReader<File>): its bytes and the position  *)
(* of its cursor                                                            *)
Source(bytes, position) == [bytes |-> bytes, position |-> position]

(* a seek that counts from where the cursor stands: SeekFrom::Current(n) *)
seek_from_current(source, n) == source.position + n

(* seek(SeekFrom::Start(n)): the position becomes n, wherever it was *)
seek_from_start(source, n) == n

(* PakSource::read: seek to pointer.offset + offset from the start, then    *)
(* read_exact size bytes; seek is the position the cursor was moved to and  *)
(* position where the call leaves it (a read_exact cut short by the end of  *)
(* the Source leaves it at the end)                                         *)
source_read(source, pointer, offset) ==
    LET at == seek_from_start(source, pointer.offset + offset) IN
    IF at + pointer.size > Len(source.bytes)
    THEN [ok |-> FALSE, bytes |-> <<>>, seek |-> at,
          position |-> IF at > Len(source.bytes) THEN at ELSE Len(source.bytes)]
    ELSE [ok |-> TRUE,
          bytes |-> SubSeq(source.bytes, at + 1, at + pointer.size),
          seek |-> at,
          position |-> at + pointer.size]

(* one call of PakSource::read: size bytes asked for at the position at *)
SourceRead(at, size) == [at |-> at, size |-> size]

(* a Pak::new that loads the indices directory along with the header *)
Pak_new_traced_eager(source) ==
    LET sizing_buffer == source_read(source, new_untyped(0, SizingSize), 0)
        sizing == IF sizing_buffer.ok THEN from_bytes("PakSizing", sizing_buffer.bytes)
                  ELSE ReadErr
        meta_buffer == IF sizing.ok
                       THEN source_read(source, new_untyped(SizingSize, sizing.obj.meta_size), 0)
                       ELSE [ok |-> FALSE, bytes |-> <<>>, position |-> sizing_buffer.position]
        meta == IF meta_buffer.ok THEN from_bytes("PakMeta", meta_buffer.bytes) ELSE ReadErr
        reads == <<SourceRead(0, SizingSize)>>
                    \o (IF sizing.ok
                        THEN <<SourceRead(SizingSize, sizing.obj.meta_size),
                               SourceRead(SizingSize + sizing.obj.meta_size,
                                          sizing.obj.indices_size)>>
                        ELSE <<>>)
    IN IF sizing.ok /\ meta.ok
       THEN [pak |-> [built |-> TRUE, sizing |-> sizing.obj, meta |-> meta.obj,
                      source |-> Source(source.bytes, meta_buffer.position)],
             reads |-> reads]
       ELSE [pak |-> NoPak, reads |-> reads]

(* Pak::new: the sizing record from the first 24 bytes, then the meta       *)
(* record; pak is the reader it returns, reads the calls it made on the     *)
(* Source, in order                                                         *)
Pak_new_traced(source) ==
    LET sizing_buffer == source_read(source, new_untyped(0, SizingSize), 0)
        sizing == IF sizing_buffer.ok THEN from_bytes("PakSizing", sizing_buffer.bytes)
                  ELSE ReadErr
        meta_buffer == IF sizing.ok
                       THEN source_read(source, new_untyped(SizingSize, sizing.obj.meta_size), 0)
                       ELSE [ok |-> FALSE, bytes |-> <<>>, position |-> sizing_buffer.position]
        meta == IF meta_buffer.ok THEN from_bytes("PakMeta", meta_buffer.bytes) ELSE ReadErr
        reads == <<SourceRead(0, SizingSize)>>
                    \o (IF sizing.ok THEN <<SourceRead(SizingSize, sizing.obj.meta_size)>>
                        ELSE <<>>)
    IN IF sizing.ok /\ meta.ok
       THEN [pak |-> [built |-> TRUE, sizing |-> sizing.obj, meta |-> meta.obj,
                      source |-> Source(source.bytes, meta_buffer.position)],
             reads |-> reads]
       ELSE [pak |-> NoPak, reads |-> reads]

Pak_new(source) == Pak_new_traced(source).pak

(* Pak::size *)
Pak_size(p) == SizingSize + p.sizing.meta_size + p.sizing.indices_size + p.sizing.vault_size

(* PakError values (error.rs 5-15, and the variant built at lib.rs 89) *)
NoError == [kind |-> "None"]
TypeMismatchError(a, b) == [kind |-> "TypeMismatchError", a |-> a, b |-> b]
FileError == [kind |-> "FileError"]
BincodeError == [kind |-> "BincodeError"]

(* the outcome of read_err: the decoded value or the error, the seeks the   *)
(* call made on the Source, in order, and the position it left the cursor   *)
(* at (None when it did not touch the Source)                               *)
ReadResult(ok, obj, err, seeks, position) ==
    [ok |-> ok, obj |-> obj, err |-> err, seeks |-> seeks, position |-> position]

(* read_err with the Source read ahead of the type check *)
read_err_check_after_read(p, pointer, T) ==
    LET buffer == source_read(p.source, pointer, get_vault_start(p))
    IN IF ~buffer.ok THEN ReadResult(FALSE, <<>>, FileError, <<buffer.seek>>, buffer.position)
       ELSE IF ~type_is_match(pointer, T)
       THEN ReadResult(FALSE, <<>>, TypeMismatchError(type_name(pointer), T),
                       <<buffer.seek>>, buffer.position)
       ELSE LET res == from_bytes(T, buffer.bytes)
            IN IF ~res.ok THEN ReadResult(FALSE, <<>>, BincodeError, <<buffer.seek>>, buffer.position)
               ELSE ReadResult(TRUE, res.obj, NoError, <<buffer.seek>>, buffer.position)

(* Pak::read_err::<T>: the type check, then the Source, then the codec *)
read_err(p, pointer, T) ==
    IF ~type_is_match(pointer, T)
    THEN ReadResult(FALSE, <<>>, TypeMismatchError(type_name(pointer), T), <<>>, None)
    ELSE LET buffer == source_read(p.source, pointer, get_vault_start(p))
         IN IF ~buffer.ok THEN ReadResult(FALSE, <<>>, FileError, <<buffer.seek>>, buffer.position)
            ELSE LET res == from_bytes(T, buffer.bytes)
                 IN IF ~res.ok THEN ReadResult(FALSE, <<>>, BincodeError, <<buffer.seek>>, buffer.position)
                    ELSE ReadResult(TRUE, res.obj, NoError, <<buffer.seek>>, buffer.position)

fetch_indices(p) ==
    LET buffer == source_read(p.source, new_untyped(get_indices_start(p), p.sizing.indices_size), 0)
    IN IF ~buffer.ok THEN ReadErr ELSE from_bytes("Indices", buffer.bytes)

(* what the traversals see of the tree whose meta was loaded by PakTree::new *)
PagesOf(p, meta) == [i \in DOMAIN meta.pages |-> read_err(p, meta.pages[i], "PakTreePage")]

(* PakQuery::execute on a leaf: PakTree::new (btree.rs 19-28), then the descent *)
execute_leaf(p, q) ==
    LET indices == fetch_indices(p) IN
    IF ~indices.ok THEN Err
    ELSE IF q.key \notin DOMAIN indices.obj THEN Panic      \* indices.get(key).unwrap()
    ELSE LET meta == read_err(p, indices.obj[q.key], "PakTreeMeta") IN
         IF ~meta.ok THEN Err
         ELSE TreeLookup(PagesOf(p, meta.obj), q.op, q.value)


(* The positions a leaf evaluation seeks to on the Source, in order: seeks  *)
(* of the pages a descent reads, ok whether it went on to the end, position *)
(* where it left the cursor (None when it did not touch the Source)         *)
Visit(ok, seeks, position) == [ok |-> ok, seeks |-> seeks, position |-> position]

(* where the cursor is after two steps that left it at first and at second *)
Left(first, second) == IF second = None THEN first ELSE second

VisitThen(first, second) ==
    IF ~first.ok THEN first
    ELSE Visit(second.ok, first.seeks \o second.seeks, Left(first.position, second.position))

RECURSIVE get_r_visits(_, _, _)
RECURSIVE get_r_visits_from(_, _, _, _)

get_r_visits_from(pg, value, index, i) ==
    LET page == pg[index].obj IN
    IF i > Len(page.values) THEN
        IF page.next # None THEN get_r_visits(pg, value, page.next) ELSE Visit(TRUE, <<>>, None)
    ELSE LET entry == page.values[i] IN
        IF lt(entry.key, value) THEN get_r_visits_from(pg, value, index, i + 1)
        ELSE IF gt(entry.key, value) THEN
            IF entry.previous # None THEN get_r_visits(pg, value, entry.previous)
            ELSE get_r_visits_from(pg, value, index, i + 1)
        ELSE Visit(TRUE, <<>>, None)

get_r_visits(pg, value, index) ==
    IF index \notin DOMAIN pg THEN Visit(FALSE, <<>>, None)
    ELSE IF ~pg[index].ok THEN Visit(FALSE, pg[index].seeks, pg[index].position)
    ELSE VisitThen(Visit(TRUE, pg[index].seeks, pg[index].position),
                   get_r_visits_from(pg, value, index, 1))

RECURSIVE get_less_r_visits(_, _, _)
RECURSIVE get_less_r_visits_from(_, _, _, _)

get_less_r_visits_from(pg, value, index, i) ==
    LET page == pg[index].obj IN
    IF i > Len(page.values) THEN
        IF page.next # None THEN get_less_r_visits(pg, value, page.next) ELSE Visit(TRUE, <<>>, None)
    ELSE LET entry == page.values[i]
             rest == get_less_r_visits_from(pg, value, index, i + 1) IN
        IF lt(entry.key, value) /\ entry.previous # None
        THEN VisitThen(get_less_r_visits(pg, value, entry.previous), rest)
        ELSE rest

get_less_r_visits(pg, value, index) ==
    IF index \notin DOMAIN pg THEN Visit(FALSE, <<>>, None)
    ELSE IF ~pg[index].ok THEN Visit(FALSE, pg[index].seeks, pg[index].position)
    ELSE VisitThen(Visit(TRUE, pg[index].seeks, pg[index].position),
                   get_less_r_visits_from(pg, value, index, 1))

RECURSIVE get_greater_r_visits(_, _, _)
RECURSIVE get_greater_r_visits_from(_, _, _, _)

get_greater_r_visits_from(pg, value, index, i) ==
    LET page == pg[index].obj IN
    IF i > Len(page.values) THEN
        IF page.next # None THEN get_greater_r_visits(pg, value, page.next) ELSE Visit(TRUE, <<>>, None)
    ELSE LET entry == page.values[i]
             rest == get_greater_r_visits_from(pg, value, index, i + 1) IN
        IF gt(entry.key, value) /\ entry.previous # None
        THEN VisitThen(get_less_r_visits(pg, value, entry.previous), rest)
        ELSE rest

get_greater_r_visits(pg, value, index) ==
    IF index \notin DOMAIN pg THEN Visit(FALSE, <<>>, None)
    ELSE IF ~pg[index].ok THEN Visit(FALSE, pg[index].seeks, pg[index].position)
    ELSE VisitThen(Visit(TRUE, pg[index].seeks, pg[index].position),
                   get_greater_r_visits_from(pg, value, index, 1))

TreeVisits(pg, op, value) ==
    CASE op = "Equal" -> get_r_visits(pg, value, 0)
      [] op \in {"LessThan", "LessThanEqual"} -> get_less_r_visits(pg, value, 0)
      [] op \in {"GreaterThan", "GreaterThanEqual"} -> get_greater_r_visits(pg, value, 0)

(* PakQuery::execute on a leaf, as seen from the Source: fetch_indices,     *)
(* the tree's meta, then the pages of the descent                           *)
execute_leaf_reads(p, q) ==
    LET buffer == source_read(p.source, new_untyped(get_indices_start(p), p.sizing.indices_size), 0)
        indices == fetch_indices(p)
        first == Visit(indices.ok, <<buffer.seek>>, buffer.position) IN
    IF ~indices.ok THEN first
    ELSE IF q.key \notin DOMAIN indices.obj THEN first
    ELSE LET meta == read_err(p, indices.obj[q.key], "PakTreeMeta") IN
         IF ~meta.ok THEN VisitThen(first, Visit(FALSE, meta.seeks, meta.position))
         ELSE VisitThen(first,
                        VisitThen(Visit(TRUE, meta.seeks, meta.position),
                                  TreeVisits(PagesOf(p, meta.obj), q.op, q.value)))

execute_leaf_seeks(p, q) == execute_leaf_reads(p, q).seeks

(* HashSet<PakPointer>::into_iter: the elements in some order *)
RECURSIVE into_iter(_)
into_iter(S) ==
    IF S = {} THEN <<>>
    ELSE LET x == CHOOSE y \in S : TRUE IN <<x>> \o into_iter(S \ {x})

(* collect::<HashSet<_>>: insert one by one, an element equal to one already in is dropped *)
RECURSIVE collect(_)
collect(s) ==
    IF s = <<>> THEN {}
    ELSE LET rest == collect(SubSeq(s, 1, Len(s) - 1))
             x == s[Len(s)]
         IN IF \E y \in rest : y = x THEN rest ELSE rest \cup {x}

RECURSIVE filter_contains(_, _)
filter_contains(s, results_b) ==
    IF s = <<>> THEN <<>>
    ELSE (IF Head(s) \in results_b THEN <<Head(s)>> ELSE <<>>) \o filter_contains(Tail(s), results_b)

(* a union that forgets to chain results_b *)
union_collect_first_only(results_a, results_b) == collect(into_iter(results_a))

(* PakQueryUnion::execute line 22 *)
union_collect(results_a, results_b) == collect(into_iter(results_a) \o into_iter(results_b))

(* an intersection that forgets the filter on results_b *)
intersection_collect_no_filter(results_a, results_b) == collect(into_iter(results_a))

(* PakQueryIntersection::execute line 62 *)
intersection_collect(results_a, results_b) == collect(filter_contains(into_iter(results_a), results_b))

(* an execute that leaves the right side alone once the left side of an    *)
(* Intersection came back empty                                            *)
RECURSIVE execute_traced_short_circuit(_, _)
execute_traced_short_circuit(p, q) ==
    IF q.op \in LeafOps THEN [res |-> execute_leaf(p, q), calls |-> <<q>>]
    ELSE LET a == execute_traced_short_circuit(p, q.a) IN
         IF a.res.kind # "Ok" THEN a
         ELSE IF q.op = "Intersection" /\ a.res.set = {} THEN a
         ELSE LET b == execute_traced_short_circuit(p, q.b) IN
              IF b.res.kind # "Ok" THEN [res |-> b.res, calls |-> a.calls \o b.calls]
              ELSE IF q.op = "Union"
              THEN [res |-> OkSet(union_collect(a.res.set, b.res.set)), calls |-> a.calls \o b.calls]
              ELSE [res |-> OkSet(intersection_collect(a.res.set, b.res.set)),
                    calls |-> a.calls \o b.calls]

(* PakQueryExpression::execute: leaf, Union(a, b) or Intersection(a, b);    *)
(* res is what the call returns, calls the leaf queries it executed, in     *)
(* order.  `self.0.execute(pak)?` returns a failure of a at once            *)
RECURSIVE execute_traced(_, _)
execute_traced(p, q) ==
    IF q.op \in LeafOps THEN [res |-> execute_leaf(p, q), calls |-> <<q>>]
    ELSE LET a == execute_traced(p, q.a) IN
         IF a.res.kind # "Ok" THEN a
         ELSE LET b == execute_traced(p, q.b) IN
              IF b.res.kind # "Ok" THEN [res |-> b.res, calls |-> a.calls \o b.calls]
              ELSE IF q.op = "Union"
              THEN [res |-> OkSet(union_collect(a.res.set, b.res.set)), calls |-> a.calls \o b.calls]
              ELSE [res |-> OkSet(intersection_collect(a.res.set, b.res.set)),
                    calls |-> a.calls \o b.calls]

(* the PakResult of execute *)
execute(p, q) == execute_traced(p, q).res

(* where execute leaves the cursor of the Source: each leaf it evaluated    *)
(* moved it in turn                                                         *)
RECURSIVE leaves_position(_, _, _)
leaves_position(p, calls, position) ==
    IF calls = <<>> THEN position
    ELSE leaves_position(p, Tail(calls), Left(position, execute_leaf_reads(p, Head(calls)).position))

execute_position(p, q) == leaves_position(p, execute_traced(p, q).calls, p.source.position)

----------------------------------------------------------------------------
(* Grouping (item.rs 47-70) behind Pak::query (lib.rs 58-61)                *)

(* Pak::read: read_err with the error turned into None *)
read(p, pointer, T) ==
    LET res == read_err(p, pointer, T)
    IN IF res.ok THEN ReadOk(res.obj) ELSE ReadErr

(* pointers.iter().filter_map(|pointer| pak.read::<T>(pointer)).collect() *)
RECURSIVE filter_map_read(_, _, _)
filter_map_read(p, s, T) ==
    IF s = <<>> THEN <<>>
    ELSE LET item == read(p, Head(s), T)
         IN (IF item.ok THEN <<item.obj>> ELSE <<>>) \o filter_map_read(p, Tail(s), T)

(* deserialize_group with read_err(pointer)? in place of read: a pointer of *)
(* another type fails the whole call                                        *)
deserialize_group_strict(p, pointers, Ts) ==
    IF \E i \in 1..Len(Ts) : \E pointer \in pointers : ~read_err(p, pointer, Ts[i]).ok
    THEN [kind |-> "Err", groups |-> <<>>]
    ELSE [kind |-> "Ok",
          groups |-> [i \in 1..Len(Ts) |-> filter_map_read(p, into_iter(pointers), Ts[i])]]

(* deserialize_group for the tuple of types Ts *)
deserialize_group(p, pointers, Ts) ==
    [kind |-> "Ok",
     groups |-> [i \in 1..Len(Ts) |-> filter_map_read(p, into_iter(pointers), Ts[i])]]

(* Pak::query after execute returned r: `?`, then deserialize_group *)
Pak_query(p, r, Ts) ==
    IF r.kind # "Ok" THEN [kind |-> r.kind, groups |-> <<>>]
    ELSE deserialize_group(p, r.set, Ts)

(* where the reads of filter_map_read leave the cursor *)
RECURSIVE filter_map_read_position(_, _, _, _)
filter_map_read_position(p, s, T, position) ==
    IF s = <<>> THEN position
    ELSE filter_map_read_position(p, Tail(s), T, Left(position, read_err(p, Head(s), T).position))

RECURSIVE deserialize_group_position(_, _, _, _)
deserialize_group_position(p, pointers, Ts, position) ==
    IF Ts = <<>> THEN position
    ELSE deserialize_group_position(p, pointers, Tail(Ts),
             filter_map_read_position(p, into_iter(pointers), Head(Ts), position))

(* where Pak::query leaves the cursor of the Source *)
Pak_query_position(p, q, r, Ts) ==
    IF r.kind # "Ok" THEN execute_position(p, q)
    ELSE deserialize_group_position(p, r.set, Ts, execute_position(p, q))

(* the tuple of types the store's queries ask for *)
GroupTypes == <<"Person", "Pet">>

----------------------------------------------------------------------------
(* The store: PakBuilder::new(), pak, build_in_memory, query                *)

AgeArgs == {PakInt(n) : n \in 0..MaxAge} \cup {Void}

LeafQueries ==
    [op : LeafOps, key : {"age"}, value : AgeArgs]
        \cup [op : {"Equal"}, key : {"first_name"}, value : {PakString(1)}]
        \cup [op : {"Equal"}, key : {"owner"}, value : {PakInt(1)}]

AgePart == [op : {"LessThan", "GreaterThan", "Equal"}, key : {"age"}, value : {PakInt(2)}]
NamePart == [op : {"Equal"}, key : {"first_name"}, value : {PakString(1)}]

CompoundQueries ==
    [op : {"Union", "Intersection"}, a : AgePart, b : NamePart]
        \cup [op : {"Union", "Intersection"}, a : NamePart, b : AgePart]

Queries == LeafQueries \cup CompoundQueries

TreeIdle ==
    /\ pages = <<PakTreePage_new>>
    /\ max_size = 1
    /\ current = 0
    /\ trail = <<>>
    /\ inserted = <<>>
    /\ script = <<>>
    /\ scripted = FALSE

Init ==
    /\ TreeIdle
    /\ chunks = <<>>
    /\ size_in_bytes = 0
    /\ vault = <<>>
    /\ paked = <<>>
    /\ pak = NoPak
    /\ query = NoQuery
    /\ result = NoResult
    /\ grouped = NoGroups
    /\ ValueIdle

(* PakBuilder::pak *)
Pak(item) ==
    /\ ~pak.built
    /\ Len(paked) < MaxItems
    /\ \E r \in {pak_item(Builder, item)} :
          /\ chunks' = r.b.chunks
          /\ size_in_bytes' = r.b.size_in_bytes
          /\ vault' = r.b.vault
          /\ paked' = IF r.ok THEN Append(paked, item) ELSE paked
    /\ UNCHANGED <<pak, query, result, grouped, treeVars, valueVars>>

(* PakBuilder::pak_no_search *)
PakNoSearch(item) ==
    /\ ~pak.built
    /\ Len(paked) < MaxItems
    /\ \E r \in {pak_no_search(Builder, item.type, item)} :
          /\ chunks' = r.b.chunks
          /\ size_in_bytes' = r.b.size_in_bytes
          /\ vault' = r.b.vault
          /\ paked' = IF r.ok THEN Append(paked, item) ELSE paked
    /\ UNCHANGED <<pak, query, result, grouped, treeVars, valueVars>>

(* PakBuilder::build_in_memory: the builder is consumed, the reader holds the bytes *)
Build(order) ==
    /\ ~pak.built
    /\ order \in Orders(BuildKeys(Builder))
    /\ \E r \in {build_internal(Builder, order)} :
          /\ pak' = [built |-> TRUE, sizing |-> r.sizing, meta |-> r.meta,
                   source |-> Source(r.out, 0)]
          /\ chunks' = r.b.chunks
          /\ size_in_bytes' = r.b.size_in_bytes
          /\ vault' = r.b.vault
    /\ UNCHANGED <<paked, query, result, grouped, treeVars, valueVars>>

(* Pak::query::<(Person, Pet)>: execute, then deserialize_group; the call   *)
(* is made when the caller holds no earlier result, and its reads move the  *)
(* cursor of the Source                                                     *)
ReaderQuery(q) ==
    /\ pak.built
    /\ query = NoQuery
    /\ query' = q
    /\ \E r \in {execute(pak, q)} :
          /\ result' = r
          /\ grouped' = Pak_query(pak, r, GroupTypes)
          /\ pak' = [pak EXCEPT !.source.position = Pak_query_position(pak, q, r, GroupTypes)]
    /\ UNCHANGED <<chunks, size_in_bytes, vault, paked, treeVars, valueVars>>

(* the first query asked of a reader *)
Query(q) ==
    /\ pak.built
    /\ pak.source.position = 0
    /\ ReaderQuery(q)

Next ==
    \/ \E item \in Items : Pak(item)
    \/ \E order \in Orders(IndexKeys) \cup Orders({"age"}) \cup Orders({}) : Build(order)
    \/ \E q \in Queries : Query(q)
    \/ Drop

Spec == Init /\ [][Next]_vars

----------------------------------------------------------------------------
(* The tree as build_internal fills it (lib.rs 262-270): every value goes   *)
(* in through a fresh access() cursor at page 0                             *)

MaxRootKey == 4
MaxRootInserts == 4

RootArgs == {PakInt(n) : n \in 0..(MaxRootKey + 1)}

RootInit ==
    /\ BuilderIdle
    /\ query = NoQuery
    /\ result = NoResult
    /\ grouped = NoGroups
    /\ ValueIdle
    /\ scripted = FALSE
    /\ script = <<>>
    /\ \E k \in 0..BuildPower :
          /\ max_size = PakTreeBuilder_new(k).max_size
          /\ pages = PakTreeBuilder_new(k).pages
    /\ current = 0
    /\ trail = <<>>
    /\ inserted = <<>>

(* tree.access().insert(value, pointer) *)
RootInsert(key) ==
    /\ Len(inserted) < MaxRootInserts
    /\ \E value \in {new_typed("T", Len(inserted), 1)} :
       \E t \in {insert(access([pages |-> pages, max_size |-> max_size]), PakInt(key), value)} :
          /\ pages' = t.pages
          /\ current' = t.current
          /\ trail' = t.trail
          /\ inserted' = Append(inserted, [key |-> PakInt(key), value |-> value])
    /\ query' = NoQuery
    /\ result' = NoResult
    /\ UNCHANGED <<max_size, script, scripted, builderVars, grouped, valueVars>>

RootNext ==
    \/ \E key \in 1..MaxRootKey : RootInsert(key)
    \/ \E op \in LeafOps, value \in RootArgs : TreeRead(op, value)
    \/ Drop

SpecRoot == RootInit /\ [][RootNext]_vars

----------------------------------------------------------------------------
(* The builder on its own: pak and pak_no_search in any order, among them  *)
(* calls on a value that does not encode                                   *)

Unencodable == [type |-> "Unencodable", name |-> PakString(3), age |-> PakInt(1)]
BuilderItems == Items \cup {Unencodable}

BuilderNext ==
    \/ \E item \in BuilderItems : Pak(item)
    \/ \E item \in BuilderItems : PakNoSearch(item)

SpecBuilder == Init /\ [][BuilderNext]_vars

----------------------------------------------------------------------------
(* One reader asked query after query: each call finds the cursor of the    *)
(* Source where the reads of the call before left it                        *)

ReaderItems ==
    [type : {"Person"}, name : {PakString(1)}, age : {PakInt(1), PakInt(MaxAge)}]
        \cup [type : {"Pet"}, name : {PakString(2)}, age : {PakInt(2)}]

ReaderNext ==
    \/ \E item \in ReaderItems : Pak(item)
    \/ \E order \in Orders(IndexKeys) \cup Orders({"age"}) \cup Orders({}) : Build(order)
    \/ \E q \in Queries : ReaderQuery(q)
    \/ Drop

SpecReader == Init /\ [][ReaderNext]_vars

----------------------------------------------------------------------------
(* PakValue comparisons on their own: eq and cmp between an Int and a Uint  *)

IntValues == {PakInt(n) : n \in (0 - Pow2(IntBits - 1))..(Pow2(IntBits - 1) - 1)}
UintValues == {PakUint(n) : n \in 0..(Pow2(IntBits) - 1)}

ValueInit ==
    /\ BuilderIdle
    /\ TreeIdle
    /\ query = NoQuery
    /\ result = NoResult
    /\ grouped = NoGroups
    /\ \/ self \in IntValues /\ other \in UintValues
       \/ self \in UintValues /\ other \in IntValues
    /\ equal = FALSE
    /\ ordering = "None"

(* self == other and self.cmp(other) *)
Compare ==
    /\ ordering = "None"
    /\ equal' = eq(self, other)
    /\ ordering' = cmp(self, other)
    /\ UNCHANGED <<self, other, builderVars, treeVars, query, result, grouped>>

ValueNext == Compare

SpecValue == ValueInit /\ [][ValueNext]_vars

----------------------------------------------------------------------------
(* Reference answers: the predicates evaluated over the flat list of what   *)
(* was handed to the builder or to the tree                                 *)

Satisfies(op, x, v) ==
    CASE op = "Equal" -> eq(x, v)
      [] op = "LessThan" -> lt(x, v)
      [] op = "LessThanEqual" -> lt(x, v) \/ eq(x, v)
      [] op = "GreaterThan" -> gt(x, v)
      [] op = "GreaterThanEqual" -> gt(x, v) \/ eq(x, v)

(* the (key, value, pointer) associations recorded in the builder *)
Recorded == Range(Associations(chunks))
Under(key) == {a \in Recorded : a.key = key}
Reference(key, op, v) == {a.pointer : a \in {x \in Under(key) : Satisfies(op, x.value, v)}}

(* the values stored under key and the argument v are pairwise comparable *)
MutuallyComparable(key, v) ==
    \A x, y \in {a.value : a \in Under(key)} \cup {v} : partial_cmp(x, y) # "None"

(* the pages of the index tree of key, as the reader decodes them *)
IndexPages(key) ==
    PagesOf(pak, read_err(pak, fetch_indices(pak).obj[key], "PakTreeMeta").obj)

(* C1: for every association (k, v, p) recorded in the builder, after build *)
(* the query Equal(k, v) returns a set that contains p.                      *)
C1_EqualContainsRecorded ==
    (pak.built /\ query.op = "Equal") =>
        \A a \in Under(query.key) :
            a.value = query.value => (result.kind = "Ok" /\ a.pointer \in result.set)

(* C2: on a built index tree of mutually comparable values, LessThan(k, v)  *)
(* and LessThanOrEqual(k, v) return exactly the pointers recorded under a   *)
(* value v' < v, respectively v' <= v.                                      *)
C2_LessExact ==
    (/\ pak.built
     /\ query.op \in {"LessThan", "LessThanEqual"}
     /\ Under(query.key) # {}
     /\ MutuallyComparable(query.key, query.value))
        => result = OkSet(Reference(query.key, query.op, query.value))

(* C3: on a built index tree of mutually comparable values, GreaterThan(k, v) *)
(* and GreaterThanOrEqual(k, v) return exactly the pointers recorded under a  *)
(* value v' > v, respectively v' >= v.                                        *)
C3_GreaterExact ==
    (/\ pak.built
     /\ query.op \in {"GreaterThan", "GreaterThanEqual"}
     /\ Under(query.key) # {}
     /\ MutuallyComparable(query.key, query.value))
        => result = OkSet(Reference(query.key, query.op, query.value))

(* C4: when the values stored under k and the argument v are mutually       *)
(* comparable, Equal(k, v) returns exactly the pointers recorded under a    *)
(* value equal to v; and for a builder holding a single item, Equal on each *)
(* of its index keys with its own value returns exactly its pointer.        *)
C4_EqualExact ==
    (pak.built /\ query.op = "Equal" /\ Under(query.key) # {}) =>
        /\ MutuallyComparable(query.key, query.value)
              => result = OkSet(Reference(query.key, "Equal", query.value))
        /\ (Len(paked) = 1 /\ \E a \in Under(query.key) : a.value = query.value)
              => result = OkSet({chunks[1].pointer})

(* C4 at work: an Equal query on a split age tree whose match lies in a     *)
(* page other than page 0                                                    *)
C4_Witness ==
    /\ pak.built
    /\ query.op = "Equal"
    /\ query.key = "age"
    /\ Under("age") # {}
    /\ MutuallyComparable("age", query.value)
    /\ result.kind = "Ok"
    /\ result.set # {}
    /\ \E i \in DOMAIN IndexPages("age") \ {0} :
          \E j \in 1..Len(IndexPages("age")[i].obj.values) :
              eq(IndexPages("age")[i].obj.values[j].key, query.value)

(* the flat list of the stand-alone tree: what was handed to insert *)
FlatReference(op, v) ==
    {inserted[i].value : i \in {j \in 1..Len(inserted) : Satisfies(op, inserted[j].key, v)}}

KeysInTree ==
    UNION {{pages[i].values[j].key : j \in 1..Len(pages[i].values)} : i \in 1..Len(pages)}

(* C5: with k = 2, after the keys 10,20,30,40,25,5,15,35,45,46 were inserted *)
(* in that order on one chained cursor, the tree holds all ten keys and the  *)
(* reads from page 0 agree with the flat list: Equal(25), LessThan(20) and   *)
(* GreaterOrEqual(40).                                                       *)
C5_UnitTestScenario ==
    (scripted /\ script = <<>>) =>
        /\ \A i \in 1..Len(TestKeys) : PakInt(TestKeys[i]) \in KeysInTree
        /\ (query.op = "Equal" /\ query.value = PakInt(25))
              => result = OkSet(FlatReference("Equal", PakInt(25)))
        /\ (query.op = "LessThan" /\ query.value = PakInt(20))
              => result = OkSet(FlatReference("LessThan", PakInt(20)))
        /\ (query.op = "GreaterThanEqual" /\ query.value = PakInt(40))
              => result = OkSet(FlatReference("GreaterThanEqual", PakInt(40)))

(* C6: a leaf predicate on a key that is not in the indices directory comes *)
(* back as an error value, and so does every query on the artifact built    *)
(* from an empty builder; none of them panics.                              *)
C6_MissingIndexIsError ==
    (pak.built /\ query # NoQuery) =>
        /\ (query.op \in LeafOps /\ Under(query.key) = {}) => result.kind = "Err"
        /\ paked = <<>> => result.kind = "Err"

(* C7: when both sub-queries succeed, Union(a, b) returns exactly the set   *)
(* union of their pointer sets, pointers being equal iff offset, size and   *)
(* type name are equal.                                                     *)
C7_UnionIsSetUnion ==
    (/\ pak.built
     /\ query.op = "Union"
     /\ execute(pak, query.a).kind = "Ok"
     /\ execute(pak, query.b).kind = "Ok")
        => result = OkSet(execute(pak, query.a).set \cup execute(pak, query.b).set)

(* C7 at work: a union of two overlapping results, neither inside the other *)
C7_Witness ==
    /\ pak.built
    /\ query.op = "Union"
    /\ result.kind = "Ok"
    /\ execute(pak, query.a).set \ execute(pak, query.b).set # {}
    /\ execute(pak, query.b).set \ execute(pak, query.a).set # {}
    /\ execute(pak, query.a).set \cap execute(pak, query.b).set # {}

(* an item whose recorded indices satisfy the leaf predicate q *)
ItemSatisfies(i, q) ==
    \E k \in 1..Len(chunks[i].indices) :
        /\ chunks[i].indices[k].key = q.key
        /\ Satisfies(q.op, chunks[i].indices[k].value, q.value)

(* C8: when both sub-queries succeed, Intersection(a, b) returns exactly    *)
(* the set intersection of their pointer sets; and an item indexed under    *)
(* two keys, matching an Equal predicate on each, is in the intersection.   *)
C8_IntersectionIsSetIntersection ==
    (/\ pak.built
     /\ query.op = "Intersection"
     /\ execute(pak, query.a).kind = "Ok"
     /\ execute(pak, query.b).kind = "Ok")
        => /\ result = OkSet(execute(pak, query.a).set \cap execute(pak, query.b).set)
           /\ (query.a.op = "Equal" /\ query.b.op = "Equal" /\ query.a.key # query.b.key)
                 => \A i \in 1..Len(paked) :
                        (ItemSatisfies(i, query.a) /\ ItemSatisfies(i, query.b))
                            => chunks[i].pointer \in result.set

(* C8 at work: an intersection of Equal predicates on two keys that keeps   *)
(* an item and drops pointers found by only one side                        *)
C8_Witness ==
    /\ pak.built
    /\ query.op = "Intersection"
    /\ query.a.op = "Equal"
    /\ query.b.op = "Equal"
    /\ result.kind = "Ok"
    /\ \E i \in 1..Len(paked) : ItemSatisfies(i, query.a) /\ ItemSatisfies(i, query.b)
    /\ result.set # {}
    /\ execute(pak, query.a).set \ result.set # {}
    /\ execute(pak, query.b).set \ result.set # {}

(* the bytes the builder appended for the i-th item handed to pak *)
ItemBytes(i) == Encode(paked[i].type, paked[i], EncodedLen(paked[i].type, paked[i]))

(* C9: every pointer p returned by a query belongs to one item handed to    *)
(* pak; the p.size bytes at vault_start + p.offset are that item's bytes    *)
(* and read_err decodes them to that item.                                  *)
C9_PointerReadsItsItem ==
    (pak.built /\ result.kind = "Ok") =>
        \A p \in result.set :
            \E i \in 1..Len(paked) :
                /\ chunks[i].pointer = p
                /\ source_read(pak.source, p, get_vault_start(pak)).ok
                /\ source_read(pak.source, p, get_vault_start(pak)).bytes = ItemBytes(i)
                /\ read_err(pak, p, paked[i].type).ok
                /\ read_err(pak, p, paked[i].type).obj = paked[i]

(* C9 at work: a query returns the first and the last of three items, with  *)
(* tree pages appended behind them                                          *)
C9_Witness ==
    /\ pak.built
    /\ Len(paked) = MaxItems
    /\ Len(chunks) > Len(paked)
    /\ result.kind = "Ok"
    /\ chunks[1].pointer \in result.set
    /\ chunks[Len(paked)].pointer \in result.set

(* the entries of the stand-alone tree that carry key k, as (page, position) *)
EntriesOf(k) ==
    {ij \in (1..Len(pages)) \X (1..(max_size + 1)) :
        /\ ij[2] <= Len(pages[ij[1]].values)
        /\ pages[ij[1]].values[ij[2]].key = k}

(* the pointers handed to insert under key k, in call order *)
RECURSIVE PointersFor(_, _)
PointersFor(h, k) ==
    IF h = <<>> THEN <<>>
    ELSE (IF Head(h).key = k THEN <<Head(h).value>> ELSE <<>>) \o PointersFor(Tail(h), k)

(* C10: after any sequence of inserts into a tree of max_size >= 2, each   *)
(* key occurs in exactly one entry across all pages, and that entry lists   *)
(* every pointer inserted under the key in insertion order.                 *)
C10_OneEntryPerKey ==
    max_size >= 2 =>
        \A k \in {inserted[i].key : i \in 1..Len(inserted)} :
            /\ Cardinality(EntriesOf(k)) = 1
            /\ \A ij \in EntriesOf(k) :
                  pages[ij[1]].values[ij[2]].values = PointersFor(inserted, k)

(* C11: after every insert call has returned, each page of the tree holds  *)
(* at most max_size entries.                                                *)
C11_PageLenAtMostMax ==
    \A i \in 1..Len(pages) : Len(pages[i].values) <= max_size

(* C11 at work: a tree that has split and has a page that is exactly full   *)
C11_Witness ==
    /\ Len(pages) > 1
    /\ \E i \in 1..Len(pages) : Len(pages[i].values) = max_size

(* C12: in every page of a tree of mutually comparable keys the entries are *)
(* sorted strictly ascending by key.                                        *)
C12_PagesSorted ==
    \A p \in 1..Len(pages) :
        \A i, j \in 1..Len(pages[p].values) :
            i < j => lt(pages[p].values[i].key, pages[p].values[j].key)

(* C12 at work: one page holds two keys that were inserted in descending    *)
(* order                                                                    *)
C12_Witness ==
    \E p \in 1..Len(pages) :
        \E i, j \in 1..Len(pages[p].values) :
            /\ i < j
            /\ \E a, b \in 1..Len(inserted) :
                  /\ a < b
                  /\ inserted[a].key = pages[p].values[j].key
                  /\ inserted[b].key = pages[p].values[i].key

(* C13: the artifact is sizing ++ meta ++ indices directory ++ vault blob:  *)
(* its length is 24 + meta_size + indices_size + vault_size, which is what  *)
(* Pak::size returns; the first 24 bytes decode to the sizing record and    *)
(* the next meta_size bytes to the meta; the directory lies at 24 +         *)
(* meta_size; the vault blob is an 8-byte length followed by the payload,   *)
(* so vault_size = 8 + the number of payload bytes.  Stated of the artifact *)
(* as build hands it over: a query moves the cursor of the Source and       *)
(* leaves its bytes alone.                                                  *)
C13_ArtifactLayout ==
    (pak.built /\ query = NoQuery) =>
        /\ Len(pak.source.bytes) = Pak_size(pak)
        /\ Pak_new(pak.source) = [pak EXCEPT !.source.position = 24 + pak.sizing.meta_size]
        /\ get_indices_start(pak) = 24 + pak.sizing.meta_size
        /\ \A indices \in {fetch_indices(pak)} :
              /\ indices.ok
              /\ DOMAIN indices.obj = BuildKeys(Builder)
              /\ pak.sizing.indices_size = IndicesSize(indices.obj)
        /\ pak.sizing.vault_size = 8 + Len(vault)
        /\ from_bytes("Len", SubSeq(pak.source.bytes, get_vault_start(pak) - 8 + 1,
                                    get_vault_start(pak))) = ReadOk(Len(vault))
        /\ SubSeq(pak.source.bytes, get_vault_start(pak) + 1, Len(pak.source.bytes)) = vault

(* C13 at work: an artifact with two index trees and a non-empty vault      *)
C13_Witness ==
    /\ pak.built
    /\ Len(paked) >= 2
    /\ DOMAIN fetch_indices(pak).obj = {"age", "first_name"}
    /\ Len(vault) > 0

(* how often x occurs in the sequence s *)
Count(s, x) == Cardinality({k \in 1..Len(s) : s[k] = x})

UntypedOf(S) == {as_untyped(p) : p \in S}

(* what is handed to the grouping besides the stored call: the result      *)
(* together with its copy without type names, asked for both types in the   *)
(* other order                                                              *)
GroupCases ==
    {[S |-> result.set \cup UntypedOf(result.set), Ts |-> <<"Pet", "Person">>]}

(* the pointers of S that are type-compatible with T and address an item of *)
(* type T handed to pak, which is what decodes as a T                       *)
Decodable(S, T) ==
    {ptr \in S :
        /\ ptr.type_name \in {"Untyped", T}
        /\ \E j \in 1..Len(paked) :
              /\ chunks[j].pointer.offset = ptr.offset
              /\ chunks[j].pointer.size = ptr.size
              /\ paked[j].type = T}

ItemAt(ptr) == paked[CHOOSE j \in 1..Len(paked) : chunks[j].pointer.offset = ptr.offset]

(* C14: grouping a pointer set S into (T1, ..., Tn) never fails and returns *)
(* n sequences; the i-th holds exactly one decoded item for each pointer of *)
(* S that is Untyped or typed Ti and decodes as a Ti, and nothing else;     *)
(* pointers of another type are skipped, so a typed pointer contributes to  *)
(* at most one sequence when the types are distinct.                        *)
C14_GroupingByType ==
    (pak.built /\ result.kind = "Ok") =>
        /\ grouped.kind = "Ok"
        /\ Len(grouped.groups) = Len(GroupTypes)
        /\ \A i \in 1..Len(GroupTypes) :
              \A D \in {Decodable(result.set, GroupTypes[i])} :
                  /\ Len(grouped.groups[i]) = Cardinality(D)
                  /\ \A x \in Range(grouped.groups[i]) \cup {ItemAt(ptr) : ptr \in D} :
                        Count(grouped.groups[i], x) = Cardinality({ptr \in D : ItemAt(ptr) = x})
        /\ \A c \in GroupCases :
              \A g \in {deserialize_group(pak, c.S, c.Ts)} :
                  /\ g.kind = "Ok"
                  /\ Len(g.groups) = Len(c.Ts)
                  /\ \A i \in 1..Len(c.Ts) :
                        \A D \in {Decodable(c.S, c.Ts[i])} :
                            /\ Len(g.groups[i]) = Cardinality(D)
                            /\ \A x \in Range(g.groups[i]) \cup {ItemAt(ptr) : ptr \in D} :
                                  Count(g.groups[i], x)
                                      = Cardinality({ptr \in D : ItemAt(ptr) = x})
                  /\ \A ptr \in result.set :
                        Cardinality({i \in 1..Len(c.Ts) : ptr \in Decodable(c.S, c.Ts[i])}) <= 1

(* C14 at work: a query returned pointers of both types, and each group    *)
(* holds the items of its type alone                                        *)
C14_Witness ==
    /\ pak.built
    /\ result.kind = "Ok"
    /\ grouped.kind = "Ok"
    /\ Len(grouped.groups[1]) >= 2
    /\ Len(grouped.groups[2]) >= 1
    /\ Len(grouped.groups[1]) + Len(grouped.groups[2]) = Cardinality(result.set)

(* the types a caller may ask read_err for *)
ReadTypes == {"Person", "Pet", "PakTreePage", "PakTreeMeta"}

(* C15: read_err::<T> on a Typed pointer whose type name differs from T's   *)
(* fails with TypeMismatchError carrying the pointer's name and T's name    *)
(* and makes no access to the Source, so its cursor stays where it was; an  *)
(* Untyped pointer passes the type check and the Source is read.  Stated    *)
(* for the pointers a query handed to the grouping.                         *)
C15_TypeCheckBeforeSource ==
    (pak.built /\ result.kind = "Ok") =>
        \A ptr \in result.set : \A T \in ReadTypes :
            /\ (ptr.type_name \notin {"Untyped", T}) =>
                  \A res \in {read_err(pak, ptr, T)} :
                      /\ ~res.ok
                      /\ res.err = [kind |-> "TypeMismatchError", a |-> ptr.type_name, b |-> T]
                      /\ res.seeks = <<>>
            /\ \A res \in {read_err(pak, as_untyped(ptr), T)} :
                  /\ res.err.kind # "TypeMismatchError"
                  /\ res.seeks = <<get_vault_start(pak) + ptr.offset>>

(* C15 at work: the grouping of a query's result asked for a Pet at a       *)
(* Person's pointer and was refused on the type names                       *)
C15_Witness ==
    /\ pak.built
    /\ result.kind = "Ok"
    /\ grouped.kind = "Ok"
    /\ \E ptr \in result.set :
          /\ ptr.type_name = "Person"
          /\ read_err(pak, ptr, "Pet").err = TypeMismatchError("Person", "Pet")
          /\ \A k \in 1..Len(grouped.groups[2]) : grouped.groups[2][k].type = "Pet"

(* the leaf queries of q, left to right *)
RECURSIVE Leaves(_)
Leaves(q) == IF q.op \in LeafOps THEN <<q>> ELSE Leaves(q.a) \o Leaves(q.b)

(* C16 as stated: executing Union(a, b) or Intersection(a, b) evaluates a   *)
(* and then b whatever the outcome of a, so every leaf is executed, in      *)
(* order.                                                                   *)
C16_BothSidesAlways ==
    (pak.built /\ query # NoQuery /\ query.op \notin LeafOps) =>
        execute_traced(pak, query).calls = Leaves(query)

(* C16: executing Union(a, b) or Intersection(a, b) evaluates a first; when *)
(* a returns a pointer set, empty or not, b is evaluated next; when a       *)
(* fails, its failure is the outcome and b is not evaluated.                *)
C16_BothSidesUnlessFailure ==
    (pak.built /\ query # NoQuery /\ query.op \notin LeafOps) =>
        /\ result = execute_traced(pak, query).res
        /\ execute_traced(pak, query).calls
              = IF execute(pak, query.a).kind = "Ok"
                THEN Leaves(query.a) \o Leaves(query.b)
                ELSE Leaves(query.a)
        /\ execute(pak, query.a).kind # "Ok" => result = execute(pak, query.a)

(* C16 at work: the left side of an Intersection found nothing and the     *)
(* right side, which finds something, was executed after it                 *)
C16_Witness ==
    /\ pak.built
    /\ query # NoQuery
    /\ query.op = "Intersection"
    /\ execute(pak, query.a) = OkSet({})
    /\ execute(pak, query.b).kind = "Ok"
    /\ execute(pak, query.b).set # {}
    /\ execute_traced(pak, query).calls = <<query.a, query.b>>

(* C17: Void equals only Void, also through the index: a pointer indexed    *)
(* under Void is returned by Equal(k, v) only when v is Void, and           *)
(* Equal(k, Void) returns only pointers indexed under Void.                 *)
C17_VoidOnlyVoid ==
    /\ \A x \in Ages \cup AgeArgs : eq(Void, x) <=> x = Void
    /\ (pak.built /\ query # NoQuery /\ query.op = "Equal" /\ result.kind = "Ok") =>
          \A a \in Under(query.key) :
              a.pointer \in result.set => (a.value = Void <=> query.value = Void)

(* b read as a two's-complement signed integer of IntBits bits *)
Signed(b) == ((b + Pow2(IntBits - 1)) % Pow2(IntBits)) - Pow2(IntBits - 1)

(* the integer an Int or a Uint is compared as *)
ComparedAs(x) == IF x.tag = "Uint" THEN Signed(x.v) ELSE x.v

(* C18: equality and ordering between an Int and a Uint are those of the   *)
(* Int and of the Uint's bits read as a signed integer; for a Uint below   *)
(* half the unsigned range that is the mathematical comparison; and eq     *)
(* holds exactly when cmp is Equal.                                        *)
C18_IntUintAsSigned ==
    ordering # "None" =>
        /\ ordering = OrdOf(ComparedAs(self), ComparedAs(other))
        /\ equal <=> ComparedAs(self) = ComparedAs(other)
        /\ equal <=> ordering = "Equal"
        /\ (\A x \in {self, other} : x.tag = "Uint" => x.v < Pow2(IntBits - 1)) =>
              /\ ordering = OrdOf(self.v, other.v)
              /\ equal <=> self.v = other.v

(* C18 at work: Int(-1) and the largest Uint were compared and found equal *)
C18_Witness ==
    /\ ordering = "Equal"
    /\ equal
    /\ self = PakInt(0 - 1)
    /\ other = PakUint(Pow2(IntBits) - 1)

(* C19: every call to insert begins its scan at page 0, the root, also when *)
(* it is chained on a cursor that an earlier insert left in a child page:   *)
(* the cursor's current page is 0 whenever an insert is taken.              *)
C19_InsertStartsAtRoot ==
    [][Len(inserted') > Len(inserted) => current = 0]_vars

(* C20: a split, at every page size max = 2^k with k = 0 included, takes    *)
(* max/2 entries from the front and from the back and leaves the median,   *)
(* so it discards no entry: every key handed to insert is the key of an     *)
(* entry of some page.                                                      *)
C20_SplitKeepsEveryKey ==
    \A i \in 1..Len(inserted) : inserted[i].key \in KeysInTree

(* the same for pages of two entries and more *)
C20_SplitKeepsEveryKeyFromTwo ==
    max_size >= 2 => C20_SplitKeepsEveryKey

(* the cursor of the stand-alone tree after the push of the entry e, where  *)
(* insert_entry tests the page length                                       *)
Pushed(e) == push_loop(Cursor, PakTreePageEntry_new(e.key, e.value))

(* what split must make of the cursor t: d is the tree it leaves before the *)
(* middle entry is inserted again, f the tree after that                    *)
SplitFrame(t, d, f) ==
    LET P == t.current + 1
        L == Len(t.pages) + 1
        half == t.max_size \div 2
        vals == t.pages[P].values
    IN /\ Len(d.t.pages) = Len(t.pages) + 1
       /\ d.t.pages[L] = [values |-> [i \in 1..half |-> vals[i]], next |-> None]
       /\ d.t.pages[P] = [values |-> [i \in 1..half |-> vals[Len(vals) - half + i]],
                          next |-> t.pages[P].next]
       /\ \A i \in 1..Len(t.pages) : i # P => d.t.pages[i] = t.pages[i]
       /\ d.middle_entry = [vals[half + 1] EXCEPT !.previous = L - 1]
       /\ d.t.current = IF t.trail = <<>> THEN t.current ELSE Head(t.trail)
       /\ f = insert_entry(d.t, d.middle_entry)
       /\ Len(f.pages) = L =>
             \E R \in 1..L :
                 /\ \A i \in (1..L) \ {R} : f.pages[i] = d.t.pages[i]
                 /\ \E j \in 1..Len(f.pages[R].values) :
                       /\ f.pages[R].values[j].key = d.middle_entry.key
                       /\ f.pages[R].values[j].previous = L - 1

(* C21: a split of page P appends one page L at the end of the page vector; *)
(* L holds the first half entries of P in their order, with their links, P  *)
(* the last half, the median points at L and goes through insert_entry on   *)
(* the page the cursor went back to; every other page keeps its entries and *)
(* links, and no page changes its index.                                    *)
C21_SplitFrame ==
    [][(/\ Len(inserted') = Len(inserted) + 1
        /\ Len(current_page(Pushed(inserted'[Len(inserted')])).values) > max_size)
         => SplitFrame(Pushed(inserted'[Len(inserted')]),
                       split_detach(Pushed(inserted'[Len(inserted')])),
                       [pages |-> pages', max_size |-> max_size',
                        current |-> current', trail |-> trail'])]_vars

(* C21 at work: a tree of max 2 and more was split twice, and the page the *)
(* second split appended is linked from an entry                            *)
C21_Witness ==
    /\ max_size >= 2
    /\ Len(pages) = 3
    /\ \E i \in 1..Len(pages) : \E j \in 1..Len(pages[i].values) :
          pages[i].values[j].previous = 2
    /\ pages[3].values # <<>>

(* the page indices stored in the links of the stand-alone tree *)
LinksOf(pgs) ==
    {pgs[i].next : i \in 1..Len(pgs)}
        \cup UNION {{pgs[i].values[j].previous : j \in 1..Len(pgs[i].values)} : i \in 1..Len(pgs)}

(* the stand-alone tree persisted into a builder that holds nothing yet *)
Persisted == into_pak([pages |-> pages, max_size |-> max_size],
                      [chunks |-> <<>>, size_in_bytes |-> 0, vault |-> <<>>])

(* the page map of the PakTreeMeta that into_pak wrote last *)
PersistedMeta(r) ==
    from_bytes("PakTreeMeta", SubSeq(r.b.vault, r.pointer.offset + 1, r.pointer.offset + r.pointer.size))

(* C22: in every builder state each previous and next index stored in a    *)
(* page is the index of an existing page; and into_pak writes a PakTreeMeta *)
(* whose page map has an entry for every index 0..n-1, page 0 included,     *)
(* whose pointer addresses the encoded bytes of that very page, so every    *)
(* index a reader follows resolves to a page.                               *)
C22_LinksResolve ==
    /\ \A l \in LinksOf(pages) \ {None} : 0 <= l /\ l < Len(pages)
    /\ query = NoQuery =>
          \A r \in {Persisted} : \A meta \in {PersistedMeta(r)} :
              /\ meta.ok
              /\ DOMAIN meta.obj.pages = 0..(Len(pages) - 1)
              /\ \A i \in DOMAIN meta.obj.pages :
                    /\ type_is_match(meta.obj.pages[i], "PakTreePage")
                    /\ from_bytes("PakTreePage",
                                  SubSeq(r.b.vault, meta.obj.pages[i].offset + 1,
                                         meta.obj.pages[i].offset + meta.obj.pages[i].size))
                          = ReadOk(pages[i + 1])
              /\ \A l \in LinksOf(pages) \ {None} : l \in DOMAIN meta.obj.pages

(* C22 at work: a tree of three pages in which a page other than page 0    *)
(* carries a link                                                           *)
C22_Witness ==
    /\ Len(pages) >= 3
    /\ query = NoQuery
    /\ \E i \in 2..Len(pages) : \E j \in 1..Len(pages[i].values) :
          pages[i].values[j].previous # None

(* the sum of the sizes of the first n recorded pointers *)
RECURSIVE SizeBefore(_)
SizeBefore(n) == IF n = 0 THEN 0 ELSE SizeBefore(n - 1) + chunks[n].pointer.size

(* C23: after any sequence of pak and pak_no_search calls the i-th pointer  *)
(* returned has the sum of the sizes of the earlier encoded items as offset *)
(* and its item's encoded length as size, so the byte ranges are contiguous *)
(* and disjoint; size() is the number of bytes in the vault, len() the      *)
(* number of calls that returned Ok, and a call whose encoding failed left  *)
(* nothing behind.                                                          *)
C23_ContiguousPointers ==
    /\ Len(chunks) = Len(paked)
    /\ size_in_bytes = Len(vault)
    /\ size_in_bytes = SizeBefore(Len(chunks))
    /\ \A i \in 1..Len(chunks) :
          /\ chunks[i].pointer.offset = SizeBefore(i - 1)
          /\ chunks[i].pointer.size = EncodedLen(paked[i].type, paked[i])
          /\ chunks[i].pointer.type_name = paked[i].type
          /\ chunks[i].pointer.size > 0
          /\ SubSeq(vault, chunks[i].pointer.offset + 1,
                    chunks[i].pointer.offset + chunks[i].pointer.size) = ItemBytes(i)
          /\ chunks[i].indices \in {<<>>, get_indices(paked[i])}
    /\ \A i, j \in 1..Len(chunks) :
          i < j => chunks[i].pointer.offset + chunks[i].pointer.size <= chunks[j].pointer.offset
    /\ \A i \in 1..Len(chunks) : chunks[i].pointer.type_name # "Unencodable"

(* C23 at work: three items went in, the second through pak_no_search *)
C23_Witness ==
    /\ Len(chunks) = MaxItems
    /\ chunks[1].indices # <<>>
    /\ chunks[2].indices = <<>>
    /\ chunks[3].indices # <<>>
    /\ chunks[3].pointer.offset = chunks[1].pointer.size + chunks[2].pointer.size
    /\ chunks[2].pointer.size # chunks[1].pointer.size

(* the positions of the pages of the tree under key, as the reader sees them *)
PageSeeks(p, meta) ==
    {get_vault_start(p) + meta.pages[i].offset : i \in DOMAIN meta.pages}

(* what one leaf evaluation seeks to: the indices directory first, then the *)
(* tree's meta, then page 0 and further pages of that tree                  *)
LeafReadsAll(p, q) ==
    \A s \in {execute_leaf_seeks(p, q)} : \A indices \in {fetch_indices(p)} :
        /\ s[1] = SizingSize + p.sizing.meta_size
        /\ indices.ok
        /\ q.key \notin DOMAIN indices.obj => Len(s) = 1
        /\ q.key \in DOMAIN indices.obj =>
              \A meta \in {read_err(p, indices.obj[q.key], "PakTreeMeta")} :
                 /\ meta.ok
                 /\ Len(s) >= 3
                 /\ s[2] = get_vault_start(p) + indices.obj[q.key].offset
                 /\ s[3] = get_vault_start(p) + meta.obj.pages[0].offset
                 /\ \A seeks \in {PageSeeks(p, meta.obj)} :
                       \A j \in 3..Len(s) : s[j] \in seeks

(* C24: opening a reader reads the sizing record (24 bytes at 0) and then   *)
(* the meta record (meta_size bytes at 24) and nothing else; the reader     *)
(* holds the sizing, the meta and the Source only, and every leaf a query   *)
(* evaluates reads the indices directory, its tree's meta and the pages it  *)
(* visits from the Source.                                                  *)
C24_ReadsOnDemand ==
    pak.built =>
        /\ \A t \in {Pak_new_traced(pak.source)} :
              /\ t.pak = [pak EXCEPT !.source.position = 24 + pak.sizing.meta_size]
              /\ t.reads = <<SourceRead(0, 24), SourceRead(24, pak.sizing.meta_size)>>
        /\ DOMAIN pak = {"built", "sizing", "meta", "source"}
        /\ query # NoQuery =>
              \A calls \in {execute_traced(pak, query).calls} :
                 \A i \in 1..Len(calls) : LeafReadsAll(pak, calls[i])

(* C24 at work: a leaf query went from page 0 down to a second page *)
C24_Witness ==
    /\ pak.built
    /\ query # NoQuery
    /\ query.op \in LeafOps
    /\ Len(execute_leaf_seeks(pak, query)) >= 4
    /\ result.kind = "Ok"

(* C24 at work: both leaves of a compound query read the indices directory *)
C24_CompoundWitness ==
    /\ pak.built
    /\ query # NoQuery
    /\ query.op \in {"Union", "Intersection"}
    /\ Len(execute_traced(pak, query).calls) = 2
    /\ result.kind = "Ok"

(* the distinct values handed to insert so far *)
DistinctKeys == {inserted[i].key : i \in 1..Len(inserted)}

(* C25: while at most max distinct mutually comparable values went into the *)
(* tree, no split happened: the tree is page 0 alone, without a previous or *)
(* next link, and each of the five predicates returns exactly the set       *)
(* computed over the flat list of inserted (value, pointer) pairs.          *)
C25_NoSplitExact ==
    Cardinality(DistinctKeys) <= max_size =>
        /\ Len(pages) = 1
        /\ pages[1].next = None
        /\ \A j \in 1..Len(pages[1].values) : pages[1].values[j].previous = None
        /\ Len(pages[1].values) = Cardinality(DistinctKeys)
        /\ query # NoQuery => result = OkSet(FlatReference(query.op, query.value))

(* C25 at work: max distinct values, one of them twice, and a read that     *)
(* returns some but not all of the pointers                                 *)
C25_Witness ==
    /\ max_size >= 2
    /\ Cardinality(DistinctKeys) = max_size
    /\ Len(inserted) > max_size
    /\ query # NoQuery
    /\ query.op = "GreaterThan"
    /\ result.kind = "Ok"
    /\ result.set # {}
    /\ result.set # {inserted[i].value : i \in 1..Len(inserted)}

(* the pages a page refers to: the previous links of its entries, its next *)
Children(idx) ==
    ({pages[idx + 1].values[j].previous : j \in 1..Len(pages[idx + 1].values)}
        \cup {pages[idx + 1].next}) \ {None}

(* the pages reachable from page idx in at most fuel steps, idx included *)
RECURSIVE Reachable(_, _)
Reachable(idx, fuel) ==
    IF fuel = 0 \/ idx \notin 0..(Len(pages) - 1) THEN {}
    ELSE {idx} \cup UNION {Reachable(c, fuel - 1) : c \in Children(idx)}

KeysOfPage(idx) == {pages[idx + 1].values[j].key : j \in 1..Len(pages[idx + 1].values)}

KeysUnder(idx) == UNION {KeysOfPage(i) : i \in Reachable(idx, Len(pages))}

(* C26: after root-initiated inserts of mutually comparable keys with       *)
(* max >= 2, for every entry e with a previous link every key in the page   *)
(* e.previous and in the pages reachable from it is strictly less than      *)
(* e.key, and every key after e in e's page is strictly greater than e.key. *)
(* Reads leave the pages alone; the tree is looked at between two reads.    *)
C26_SearchTreeOrder ==
    (max_size >= 2 /\ query = NoQuery) =>
        \A p \in 1..Len(pages) : \A j \in 1..Len(pages[p].values) :
            \A e \in {pages[p].values[j]} :
                e.previous # None =>
                    /\ e.previous \in 0..(Len(pages) - 1)
                    /\ \A k \in KeysUnder(e.previous) : lt(k, e.key)
                    /\ \A j2 \in (j + 1)..Len(pages[p].values) :
                          /\ gt(pages[p].values[j2].key, e.key)
                          /\ pages[p].values[j2].key \notin KeysUnder(e.previous)

(* C26 at work: a chain of three pages, the entry of page 0 with a link has *)
(* a successor in its page and two pages of smaller keys below it           *)
C26_Witness ==
    /\ max_size >= 2
    /\ Len(pages) >= 3
    /\ Len(pages[1].values) >= 2
    /\ pages[1].values[1].previous # None
    /\ Cardinality(Reachable(pages[1].values[1].previous, Len(pages))) >= 2

(* C27: on a tree built by root-initiated inserts of mutually comparable   *)
(* keys, whatever the number of splits, get_less(v) returns no pointer      *)
(* whose key is >= v and get_less_eq(v) returns no pointer whose key is > v *)
C27_LessIsSound ==
    /\ (query # NoQuery /\ query.op = "LessThan") =>
          /\ result.set \cap FlatReference("GreaterThanEqual", query.value) = {}
          /\ result.set \subseteq FlatReference("LessThan", query.value)
    /\ (query # NoQuery /\ query.op = "LessThanEqual") =>
          /\ result.set \cap FlatReference("GreaterThan", query.value) = {}
          /\ result.set \subseteq FlatReference("LessThanEqual", query.value)

(* C27 at work: get_less on a chain of three pages returns pointers, the    *)
(* tree holds the asked value and greater ones                              *)
C27_Witness ==
    /\ Len(pages) >= 3
    /\ query # NoQuery
    /\ query.op = "LessThan"
    /\ result.kind = "Ok"
    /\ Cardinality(result.set) >= 2
    /\ FlatReference("Equal", query.value) # {}
    /\ FlatReference("GreaterThan", query.value) # {}

(* the reader with the cursor of its Source back at the start *)
Rewound == [pak EXCEPT !.source.position = 0]

(* C28: a query returns what it returns on the reader with its cursor at    *)
(* the start, wherever the reads of earlier queries (failed ones among      *)
(* them) left the cursor, so asking a query again gives the same pointer    *)
(* set; and a query changes nothing of the reader but that cursor.          *)
C28_CursorIndependent ==
    [][(query = NoQuery /\ query' # NoQuery) =>
          /\ result' = execute(Rewound, query')
          /\ grouped' = Pak_query(Rewound, result', GroupTypes)
          /\ pak' = [pak EXCEPT !.source.position = pak'.source.position]
          /\ UNCHANGED <<chunks, size_in_bytes, vault, paked>>]_vars

(* C28 at work: an earlier query left the cursor inside the vault, the      *)
(* caller dropped its result, and the reader has a query with a non-empty   *)
(* answer still to give                                                     *)
C28_Witness ==
    /\ pak.built
    /\ query = NoQuery
    /\ pak.source.position > get_vault_start(pak)
    /\ \E q \in Queries : execute(pak, q).kind = "Ok" /\ execute(pak, q).set # {}

(* C28 at work: a query that failed left the cursor behind the indices *)
C28_FailedWitness ==
    /\ pak.built
    /\ query # NoQuery
    /\ result.kind # "Ok"
    /\ pak.source.position > 0

(* the entries that carry a previous link, as <<page index, position>> *)
Linking ==
    {pj \in UNION {{<<p, j>> : j \in 1..Len(pages[p + 1].values)} : p \in 0..(Len(pages) - 1)} :
        pages[pj[1] + 1].values[pj[2]].previous # None}

(* C29: in every builder state reached by root-initiated inserts with       *)
(* max >= 2, next is None on every page and only the entry at index 0 of a  *)
(* page carries a previous link, so a page has at most one child; no page   *)
(* is referenced by two entries, page 0 by none, and the pages form one     *)
(* chain without a cycle that starts at page 0.                             *)
C29_SimpleChain ==
    (max_size >= 2 /\ query = NoQuery) =>
        /\ \A p \in 1..Len(pages) : pages[p].next = None
        /\ \A pj \in Linking :
              /\ pj[2] = 1
              /\ pages[pj[1] + 1].values[pj[2]].previous \in 1..(Len(pages) - 1)
              /\ pages[pj[1] + 1].values[pj[2]].previous # pj[1]
        /\ \A a, b \in Linking :
              pages[a[1] + 1].values[a[2]].previous = pages[b[1] + 1].values[b[2]].previous
                  => a = b
        /\ \A p \in 0..(Len(pages) - 1) : Cardinality(Children(p)) <= 1
        /\ Reachable(0, Len(pages)) = 0..(Len(pages) - 1)
        /\ Cardinality(Linking) = Len(pages) - 1

(* C29 at work: the chain page 0 -> page 2 -> page 1 left by two splits *)
C29_Witness ==
    /\ max_size >= 2
    /\ query = NoQuery
    /\ Len(pages) = 3
    /\ pages[1].values[1].previous = 2
    /\ pages[3].values[1].previous = 1
    /\ Linking = {<<0, 1>>, <<2, 1>>}

(* the pages push_loop walks through before the entry finds its place *)
RECURSIVE push_loop_hops(_, _)
push_loop_hops(t, entry) ==
    IF push(current_page(t), entry).status = "Next"
    THEN 1 + push_loop_hops(goto(t, push(current_page(t), entry).index), entry)
    ELSE 0

(* the splits one call of insert_entry goes through *)
RECURSIVE insert_entry_splits(_, _)
insert_entry_splits(t, entry) ==
    LET t1 == push_loop(t, entry) IN
    IF Len(current_page(t1).values) > t1.max_size
    THEN 1 + insert_entry_splits(split_detach(t1).t, split_detach(t1).middle_entry)
    ELSE 0

(* the call tree.access().insert(key, value) that a step of the tree makes *)
RootCall == access([pages |-> pages, max_size |-> max_size])
RootEntry(e) == PakTreePageEntry_new(e.key, e.value)

(* what a single split leaves: the median in front of the trailing half in *)
(* the page that was split, max/2 + 1 entries in all                        *)
MedianLandsInFront(t1, d, after) ==
    /\ after[t1.current + 1].values[1] = d.middle_entry
    /\ Tail(after[t1.current + 1].values) = d.t.pages[t1.current + 1].values
    /\ Len(after[t1.current + 1].values) = (t1.max_size \div 2) + 1
    /\ Len(after[t1.current + 1].values) <= t1.max_size
    /\ after[Len(after)].values = SubSeq(t1.pages[t1.current + 1].values, 1, t1.max_size \div 2)

(* C30: every insert call comes to an end: it walks through fewer pages     *)
(* than the tree has and splits a bounded number of times; with max >= 2 a  *)
(* root-initiated insert splits at most once, and the median the split      *)
(* re-inserts lands at index 0 of the page just split, which then holds     *)
(* max/2 + 1 <= max entries.                                                *)
C30_OneSplitPerInsert ==
    [][(Len(inserted') = Len(inserted) + 1) =>
          \A e \in {RootEntry(inserted'[Len(inserted')])} :
             /\ pages' = insert_entry(RootCall, e).pages
             /\ push_loop_hops(RootCall, e) < Len(pages)
             /\ insert_entry_splits(RootCall, e) <= Len(pages) + 1
             /\ max_size >= 2 =>
                   /\ insert_entry_splits(RootCall, e) <= 1
                   /\ Len(pages') = Len(pages) + insert_entry_splits(RootCall, e)
                   /\ insert_entry_splits(RootCall, e) = 1 =>
                         MedianLandsInFront(push_loop(RootCall, e),
                                            split_detach(push_loop(RootCall, e)), pages')]_vars

(* C30 at work: the fourth insert split page 0 a second time; the median    *)
(* heads the page in front of the one entry of the trailing half            *)
C30_Witness ==
    /\ max_size = 2
    /\ query = NoQuery
    /\ Len(inserted) = 4
    /\ Len(pages) = 3
    /\ current = 0
    /\ Len(pages[1].values) = 2
    /\ pages[1].values[1].previous = 2
    /\ pages[1].values[2].previous = None

====
